---- MODULE Spec2Model ----
(***************************************************************************)
(* PromptForge: the versioned evaluation engine.                           *)
(*   src/src/db/database.py          the Version Store (SQLAlchemy/SQLite)  *)
(*   src/src/core/analyzer.py        score parser and quality summary       *)
(*   src/src/core/tester.py          test runner, comparison, test summary  *)
(*   src/src/api/anthropic_client.py oracle client and variant parser       *)
(***************************************************************************)
EXTENDS Integers, Sequences, FiniteSets, TLC

VARIABLES
    prompts,          \* table prompts: id -> [current_version]
    versions,         \* table prompt_versions: id -> [prompt_id, version, content]
    test_cases,       \* table test_cases: id -> [prompt_id]
    test_results,     \* table test_results: id -> [test_case_id, version_id, output, score]
    analysis_results, \* table analysis_results: id -> [version_id, analysis_type, score]
    sessions,         \* per writer: an open create_version session between read and commit
    ret,              \* what the last operation returned or raised
    oracle_calls,     \* the oracle round trips of the last operation, in order
    analysis_text,    \* judge response handed to the score parser
    analyses,         \* list of analysis result dicts handed to get_quality_summary
    response,         \* judge response (list of lines) handed to the variant parser
    request           \* arguments of the tester or store call under study

vars == <<prompts, versions, test_cases, test_results, analysis_results, sessions, ret,
          oracle_calls, analysis_text, analyses, response, request>>

storeVars == <<prompts, versions, test_cases, test_results, analysis_results>>
inputVars == <<analysis_text, analyses, response, request>>

----------------------------------------------------------------------------
(* Bounds of the model *)

MaxPrompts == 2
MaxVersion == 3
MaxVersionRows == 4
MaxTestCases == 2
MaxResultRows == 4
MaxAnalysisRows == 1

Contents == {"c1", "c2"}
Writers == {"w1", "w2"}

(* Python's None and a present value *)
None == <<>>
Some(x) == <<x>>

Max(S) == CHOOSE x \in S : \A y \in S : y <= x
Min(S) == CHOOSE x \in S : \A y \in S : x <= y

(* SQLite rowid allocation for an INTEGER PRIMARY KEY column *)
NextId(table) == IF DOMAIN table = {} THEN 1 ELSE Max(DOMAIN table) + 1

Without(table, ids) == [k \in DOMAIN table \ ids |-> table[k]]

NoReturn == [op |-> "none"]
NoCalls == << >>
IdleSessions == [w \in Writers |-> [pc |-> "idle"]]

----------------------------------------------------------------------------
(* Version Store: prompts and versions *)

(* Column default of prompts.current_version *)
DefaultCurrentVersion == 1

(* create_prompt: the prompt row and its initial version, one commit *)
CreatePrompt(content) ==
    LET pid == NextId(prompts)
        vid == NextId(versions)
    IN  /\ pid <= MaxPrompts
        /\ vid <= MaxVersionRows
        /\ prompts' = (pid :> [current_version |-> DefaultCurrentVersion]) @@ prompts
        /\ versions' = (vid :> [prompt_id |-> pid, version |-> 1, content |-> content])
                          @@ versions
        /\ ret' = [op |-> "create_prompt", raised |-> FALSE, value |-> pid]
        /\ oracle_calls' = NoCalls
        /\ UNCHANGED <<test_cases, test_results, analysis_results, sessions, inputVars>>

(* create_version, line 220: the number given to the new version *)
NewVersionNumBy2(current_version) == current_version + 2
NewVersionNum(current_version) == current_version + 1

(* create_version, lines 221-232: insert the row, move the pointer, commit *)
CommitVersion(prompt_id, new_version_num, content) ==
    LET vid == NextId(versions)
    IN  /\ versions' = (vid :> [prompt_id |-> prompt_id, version |-> new_version_num,
                                content |-> content]) @@ versions
        /\ prompts' = IF prompt_id \in DOMAIN prompts
                      THEN [prompts EXCEPT ![prompt_id].current_version = new_version_num]
                      ELSE prompts
        /\ ret' = [op |-> "create_version", raised |-> FALSE, value |-> vid]

(* create_version called by a single writer: read, insert and commit in one step *)
CreateVersionWithoutLookup(prompt_id, content) ==
    /\ \A w \in Writers : sessions[w].pc = "idle"
    /\ NextId(versions) <= MaxVersionRows
    /\ prompt_id \in DOMAIN prompts => prompts[prompt_id].current_version < MaxVersion
    /\ CommitVersion(prompt_id,
                     IF prompt_id \in DOMAIN prompts
                     THEN NewVersionNum(prompts[prompt_id].current_version) ELSE 1,
                     content)
    /\ oracle_calls' = NoCalls
    /\ UNCHANGED <<test_cases, test_results, analysis_results, sessions, inputVars>>
CreateVersion(prompt_id, content) ==
    /\ \A w \in Writers : sessions[w].pc = "idle"
    /\ IF prompt_id \notin DOMAIN prompts
       THEN /\ ret' = [op |-> "create_version", raised |-> TRUE, value |-> "ValueError"]
            /\ UNCHANGED <<prompts, versions>>
       ELSE /\ prompts[prompt_id].current_version < MaxVersion
            /\ NextId(versions) <= MaxVersionRows
            /\ CommitVersion(prompt_id, NewVersionNum(prompts[prompt_id].current_version),
                             content)
    /\ oracle_calls' = NoCalls
    /\ UNCHANGED <<test_cases, test_results, analysis_results, sessions, inputVars>>

VersionsOf(prompt_id) == {v \in DOMAIN versions : versions[v].prompt_id = prompt_id}

TestCasesOf(prompt_id) == {t \in DOMAIN test_cases : test_cases[t].prompt_id = prompt_id}

(* update_prompt: setattr of every keyword that names an attribute of the row.
   kwargs is a record; of the columns only current_version is part of the model,
   name and description are accepted and leave the modelled state alone. *)
UpdatePrompt(prompt_id, kwargs) ==
    /\ prompts' = IF prompt_id \in DOMAIN prompts /\ "current_version" \in DOMAIN kwargs
                  THEN [prompts EXCEPT ![prompt_id].current_version = kwargs.current_version]
                  ELSE prompts
    /\ ret' = [op |-> "update_prompt", raised |-> FALSE, value |-> None]
    /\ oracle_calls' = NoCalls
    /\ UNCHANGED <<versions, test_cases, test_results, analysis_results, sessions, inputVars>>

(* delete_prompt: session.delete(prompt) with the relationships' cascade
   "all, delete-orphan": versions -> analyses, test_results; test_cases -> test_results *)
DeletePromptSparingTestCaseResults(prompt_id) ==
    /\ IF prompt_id \in DOMAIN prompts
       THEN LET vs == VersionsOf(prompt_id)
                ts == TestCasesOf(prompt_id)
            IN  /\ prompts' = Without(prompts, {prompt_id})
                /\ versions' = Without(versions, vs)
                /\ test_cases' = Without(test_cases, ts)
                /\ analysis_results' = Without(analysis_results,
                       {a \in DOMAIN analysis_results : analysis_results[a].version_id \in vs})
                /\ test_results' = Without(test_results,
                       {r \in DOMAIN test_results : test_results[r].version_id \in vs})
       ELSE UNCHANGED storeVars
    /\ ret' = [op |-> "delete_prompt", raised |-> FALSE, value |-> None]
    /\ oracle_calls' = NoCalls
    /\ UNCHANGED <<sessions, inputVars>>
DeletePrompt(prompt_id) ==
    /\ IF prompt_id \in DOMAIN prompts
       THEN LET vs == VersionsOf(prompt_id)
                ts == TestCasesOf(prompt_id)
            IN  /\ prompts' = Without(prompts, {prompt_id})
                /\ versions' = Without(versions, vs)
                /\ test_cases' = Without(test_cases, ts)
                /\ analysis_results' = Without(analysis_results,
                       {a \in DOMAIN analysis_results : analysis_results[a].version_id \in vs})
                /\ test_results' = Without(test_results,
                       {r \in DOMAIN test_results :
                            \/ test_results[r].version_id \in vs
                            \/ test_results[r].test_case_id \in ts})
       ELSE UNCHANGED storeVars
    /\ ret' = [op |-> "delete_prompt", raised |-> FALSE, value |-> None]
    /\ oracle_calls' = NoCalls
    /\ UNCHANGED <<sessions, inputVars>>

(* the input_text a test case is created with: a text of its own *)
InputTextOf(test_case_id) == <<"input", test_case_id>>

(* create_test_case: the row is inserted with the prompt id as given *)
CreateTestCase(prompt_id) ==
    LET tid == NextId(test_cases)
    IN  /\ tid <= MaxTestCases
        /\ test_cases' = (tid :> [prompt_id |-> prompt_id,
                                  input_text |-> InputTextOf(tid)]) @@ test_cases
        /\ ret' = [op |-> "create_test_case", raised |-> FALSE, value |-> tid]
        /\ oracle_calls' = NoCalls
        /\ UNCHANGED <<prompts, versions, test_results, analysis_results, sessions, inputVars>>

(* delete_test_case removing the test case row alone *)
DeleteTestCaseKeepingResults(test_case_id) ==
    /\ IF test_case_id \in DOMAIN test_cases
       THEN /\ test_cases' = Without(test_cases, {test_case_id})
            /\ test_results' = test_results
       ELSE UNCHANGED <<test_cases, test_results>>
    /\ ret' = [op |-> "delete_test_case", raised |-> FALSE, value |-> None]
    /\ oracle_calls' = NoCalls
    /\ UNCHANGED <<prompts, versions, analysis_results, sessions, inputVars>>

(* delete_test_case: session.delete(test_case), cascading to its test_results *)
DeleteTestCase(test_case_id) ==
    /\ IF test_case_id \in DOMAIN test_cases
       THEN /\ test_cases' = Without(test_cases, {test_case_id})
            /\ test_results' = Without(test_results,
                   {r \in DOMAIN test_results : test_results[r].test_case_id = test_case_id})
       ELSE UNCHANGED <<test_cases, test_results>>
    /\ ret' = [op |-> "delete_test_case", raised |-> FALSE, value |-> None]
    /\ oracle_calls' = NoCalls
    /\ UNCHANGED <<prompts, versions, analysis_results, sessions, inputVars>>

(* save_analysis: the row is inserted with the version id as given; a direct
   caller's content is one fixed text *)
SaveAnalysisRow(version_id, analysis_type, score) ==
    (NextId(analysis_results) :>
        [version_id |-> version_id, analysis_type |-> analysis_type, score |-> score,
         content |-> <<"x">>])
    @@ analysis_results

SaveAnalysis(version_id, analysis_type, score) ==
    /\ NextId(analysis_results) <= MaxAnalysisRows
    /\ analysis_results' = SaveAnalysisRow(version_id, analysis_type, score)
    /\ ret' = [op |-> "save_analysis", raised |-> FALSE,
               value |-> NextId(analysis_results)]
    /\ oracle_calls' = NoCalls
    /\ UNCHANGED <<prompts, versions, test_cases, test_results, sessions, inputVars>>

(* save_test_result: the row is inserted with the ids as given *)
InsertTestResultOverLast(table, test_case_id, version_id, output, score, evaluation) ==
    (Max(DOMAIN table \cup {1}) :>
        [test_case_id |-> test_case_id, version_id |-> version_id,
         output |-> output, score |-> score, evaluation |-> evaluation])
    @@ table
InsertTestResult(table, test_case_id, version_id, output, score, evaluation) ==
    (NextId(table) :>
        [test_case_id |-> test_case_id, version_id |-> version_id,
         output |-> output, score |-> score, evaluation |-> evaluation])
    @@ table

(* save_test_result without the optional evaluation *)
SaveTestResultRow(test_case_id, version_id, output, score) ==
    InsertTestResult(test_results, test_case_id, version_id, output, score, None)

SaveTestResult(test_case_id, version_id, output, score) ==
    /\ NextId(test_results) <= MaxResultRows
    /\ test_results' = SaveTestResultRow(test_case_id, version_id, output, score)
    /\ ret' = [op |-> "save_test_result", raised |-> FALSE,
               value |-> NextId(test_results)]
    /\ oracle_calls' = NoCalls
    /\ UNCHANGED <<prompts, versions, test_cases, analysis_results, sessions, inputVars>>

(* get_current_version: the row of the prompt that bears prompt.current_version *)
GetCurrentVersion(prompt_id) ==
    IF prompt_id \notin DOMAIN prompts THEN None
    ELSE LET hits == {v \in VersionsOf(prompt_id) :
                         versions[v].version = prompts[prompt_id].current_version}
         IN  IF hits = {} THEN None ELSE Some(Min(hits))

----------------------------------------------------------------------------
(* Sequential creation of prompts and versions *)

(* A fresh database file, no call made yet *)
EmptyStore ==
    /\ prompts = << >>
    /\ versions = << >>
    /\ test_cases = << >>
    /\ test_results = << >>
    /\ analysis_results = << >>
    /\ sessions = IdleSessions
    /\ ret = NoReturn
    /\ oracle_calls = NoCalls

StoreInit ==
    /\ EmptyStore
    /\ analysis_text = << >>
    /\ analyses = << >>
    /\ response = << >>
    /\ request = None

PromptIds == 1..MaxPrompts
VersionIds == 1..MaxVersionRows
TestCaseIds == 1..MaxTestCases

VersionNext ==
    \/ \E c \in Contents : CreatePrompt(c)
    \/ \E p \in PromptIds, c \in Contents : CreateVersion(p, c)

VersionSpec == StoreInit /\ [][VersionNext]_vars

\* C1: after any sequence of create_prompt and create_version calls, the version
\* numbers of each prompt are exactly 1..n, each borne by one row, and the prompt's
\* current_version is n.
VersionsContiguous ==
    \A p \in DOMAIN prompts :
        LET n == prompts[p].current_version IN
        /\ {versions[v].version : v \in VersionsOf(p)} = 1..n
        /\ Cardinality(VersionsOf(p)) = n

VersionsContiguousWitness ==
    \E p \in DOMAIN prompts :
        /\ Cardinality(VersionsOf(p)) = 3
        /\ prompts[p].current_version = 3
        /\ Cardinality(DOMAIN prompts) = 2

----------------------------------------------------------------------------
(* The Version Store's writers of prompts and prompt_versions, in any order and
   with ids as given by callers.  The other Store operations (create_test_case,
   delete_test_case, save_analysis, save_test_result and the reads) write neither
   table. *)

UpdateKwargs == {[name |-> "renamed"]} \cup {[current_version |-> n] : n \in 0..MaxVersion}

StoreNext ==
    \/ \E c \in Contents : CreatePrompt(c)
    \/ \E p \in PromptIds, c \in Contents : CreateVersion(p, c)
    \/ \E p \in PromptIds, kw \in UpdateKwargs : UpdatePrompt(p, kw)
    \/ \E p \in PromptIds : DeletePrompt(p)

Spec == StoreInit /\ [][StoreNext]_vars

(* The most recently created version row of a prompt *)
LatestVersionOf(prompt_id) == Max(VersionsOf(prompt_id))

\* C2: in every state reachable by Version Store operations, update_prompt with
\* arbitrary fields included, each prompt's current_version is the version number
\* of its most recently created version, and get_current_version returns that row.
CurrentVersionIsLatest ==
    \A p \in DOMAIN prompts :
        /\ VersionsOf(p) # {}
        /\ prompts[p].current_version = versions[LatestVersionOf(p)].version
        /\ GetCurrentVersion(p) = Some(LatestVersionOf(p))

----------------------------------------------------------------------------
(* Concurrent writers.  Each create_version call runs in a session of its own
   (get_session, line 214).  The SELECT of line 216 and the INSERT/UPDATE flushed
   by the commit of line 232 are separate statements; no lock is held between
   them and prompt_versions has no unique constraint on (prompt_id, version). *)

OpenSessions == {w \in Writers : sessions[w].pc # "idle"}

(* create_version, lines 214-220: open the session, read the prompt, pick the number *)
BeginCreateVersion(w, prompt_id, content) ==
    /\ sessions[w].pc = "idle"
    /\ IF prompt_id \notin DOMAIN prompts
       THEN /\ ret' = [op |-> "create_version", raised |-> TRUE, value |-> "ValueError"]
            /\ UNCHANGED sessions
       ELSE /\ prompts[prompt_id].current_version < MaxVersion
            /\ NextId(versions) + Cardinality(OpenSessions) <= MaxVersionRows
            /\ sessions' = [sessions EXCEPT ![w] =
                   [pc |-> "read", prompt_id |-> prompt_id, content |-> content,
                    new_version_num |->
                        NewVersionNum(prompts[prompt_id].current_version)]]
            /\ UNCHANGED ret
    /\ UNCHANGED <<storeVars, oracle_calls, inputVars>>

(* create_version, lines 221-235: insert, move the pointer, commit, close *)
FinishCreateVersion(w) ==
    /\ sessions[w].pc = "read"
    /\ CommitVersion(sessions[w].prompt_id, sessions[w].new_version_num,
                     sessions[w].content)
    /\ sessions' = [sessions EXCEPT ![w] = [pc |-> "idle"]]
    /\ UNCHANGED <<test_cases, test_results, analysis_results, oracle_calls, inputVars>>

RaceNext ==
    \/ \E c \in Contents : CreatePrompt(c)
    \/ \E w \in Writers, p \in PromptIds, c \in Contents : BeginCreateVersion(w, p, c)
    \/ \E w \in Writers : FinishCreateVersion(w)

RaceSpec == StoreInit /\ [][RaceNext]_vars

\* C3: version-number allocation is atomic: whatever the interleaving of concurrent
\* create_version calls, once they have all returned the versions of each prompt
\* bear distinct consecutive numbers 1..n and current_version is the largest, n.
ConcurrentAllocationAtomic ==
    OpenSessions = {} =>
        \A p \in DOMAIN prompts :
            /\ \A u, v \in VersionsOf(p) : u # v => versions[u].version # versions[v].version
            /\ {versions[v].version : v \in VersionsOf(p)}
                   = 1..Cardinality(VersionsOf(p))
            /\ prompts[p].current_version = Cardinality(VersionsOf(p))

----------------------------------------------------------------------------
(* Result Parser.  A judge response is a sequence of tokens: the two halves of a
   dimension label ("CLARITY " and "SCORE:"), blanks, line breaks, decimal digits
   and other text.  The patterns are r"CLARITY SCORE:\s*(\d+)" (analyzer.py:55) and
   r"SCORE:\s*(\d+)" (analyzer.py:24, tester.py:148). *)

MaxTextLen == 5

Digits == {"0", "1"}
Spaces == {" ", "\n"}
Alphabet == {"CLARITY ", "SCORE:", "x"} \cup Spaces \cup Digits
Texts == UNION {[1..n -> Alphabet] : n \in 0..MaxTextLen}

ClarityLabel == <<"CLARITY ", "SCORE:">>
ScoreLabel == <<"SCORE:">>

(* \s and \d *)
IsSpace(ch) == ch \in Spaces
IsDigit(ch) == ch \in Digits
DigitValue(ch) == IF ch = "1" THEN 1 ELSE 0

(* the literal part of the pattern, tried at position i *)
MatchLiteral(text, i, label) ==
    /\ i + Len(label) - 1 <= Len(text)
    /\ \A k \in 1..Len(label) : text[i + k - 1] = label[k]

(* \s* from position j: the first position that is not white space *)
RECURSIVE SkipSpaces(_, _)
SkipSpaces(text, j) ==
    IF j <= Len(text) /\ IsSpace(text[j]) THEN SkipSpaces(text, j + 1) ELSE j

(* \d+ from position j, greedy: the first position after the digits *)
RECURSIVE DigitsEnd(_, _)
DigitsEnd(text, j) ==
    IF j <= Len(text) /\ IsDigit(text[j]) THEN DigitsEnd(text, j + 1) ELSE j

(* the whole pattern tried at position i: the captured group, or None *)
MatchAt(text, i, label) ==
    IF MatchLiteral(text, i, label)
    THEN LET j == SkipSpaces(text, i + Len(label))
             e == DigitsEnd(text, j)
         IN  IF e > j THEN Some(SubSeq(text, j, e - 1)) ELSE None
    ELSE None

(* re.search: the match at the leftmost position where the pattern matches *)
RECURSIVE ReSearch(_, _, _)
ReSearch(text, label, i) ==
    IF i > Len(text) THEN None
    ELSE LET m == MatchAt(text, i, label)
         IN  IF m # None THEN m ELSE ReSearch(text, label, i + 1)

(* int(str) and float(str) of a string of decimal digits *)
RECURSIVE ParseInt(_)
ParseInt(digits) ==
    IF digits = << >> THEN 0
    ELSE ParseInt(SubSeq(digits, 1, Len(digits) - 1)) * 10 + DigitValue(digits[Len(digits)])

RECURSIVE ParseFloat(_)
ParseFloat(digits) ==
    IF digits = << >> THEN 0
    ELSE ParseFloat(SubSeq(digits, 1, Len(digits) - 1)) * 10 + DigitValue(digits[Len(digits)])

(* PromptAnalyzer._extract_score *)
ExtractScoreOrZero(text, label) ==
    LET match == ReSearch(text, label, 1)
    IN  IF match # None THEN Some(ParseInt(match[1])) ELSE Some(0)
ExtractScore(text, label) ==
    LET match == ReSearch(text, label, 1)
    IN  IF match # None THEN Some(ParseInt(match[1])) ELSE None

(* PromptTester._extract_score_from_evaluation *)
ExtractScoreFromEvaluation(evaluation) ==
    LET match == ReSearch(evaluation, ScoreLabel, 1)
    IN  IF match # None THEN Some(ParseFloat(match[1])) ELSE None

ParserInit ==
    /\ EmptyStore
    /\ analysis_text \in Texts
    /\ analyses = << >>
    /\ response = << >>
    /\ request = None

(* analyze_clarity, line 55 *)
ParseClarityScore ==
    /\ ret' = [op |-> "_extract_score", raised |-> FALSE, label |-> ClarityLabel,
               value |-> ExtractScore(analysis_text, ClarityLabel)]
    /\ UNCHANGED <<storeVars, sessions, oracle_calls, inputVars>>

(* run_test, line 65 *)
ParseEvaluationScore ==
    /\ ret' = [op |-> "_extract_score_from_evaluation", raised |-> FALSE,
               label |-> ScoreLabel,
               value |-> ExtractScoreFromEvaluation(analysis_text)]
    /\ UNCHANGED <<storeVars, sessions, oracle_calls, inputVars>>

ParserNext == ParseClarityScore \/ ParseEvaluationScore

ParserSpec == ParserInit /\ [][ParserNext]_vars

ParserOps == {"_extract_score", "_extract_score_from_evaluation"}

(* A well-formed score line in text: the label at i, then white space up to j,
   then the digits text[j..e-1], e being the first position that holds no digit *)
IsScoreLine(text, label, i, j, e) ==
    /\ i + Len(label) <= j /\ j < e /\ e <= Len(text) + 1
    /\ \A k \in 1..Len(label) : text[i + k - 1] = label[k]
    /\ \A k \in (i + Len(label))..(j - 1) : text[k] \in Spaces
    /\ \A k \in j..(e - 1) : text[k] \in Digits
    /\ e <= Len(text) => text[e] \notin Digits

ScoreLines(text, label) ==
    {t \in (1..Len(text)) \X (1..Len(text)) \X (1..(Len(text) + 1)) :
        IsScoreLine(text, label, t[1], t[2], t[3])}

FirstScoreLine(text, label) ==
    CHOOSE t \in ScoreLines(text, label) :
        \A u \in ScoreLines(text, label) : t[1] <= u[1]

(* The number a string of decimal digits denotes *)
RECURSIVE Pow10(_)
Pow10(n) == IF n = 0 THEN 1 ELSE 10 * Pow10(n - 1)
RECURSIVE DecimalValue(_)
DecimalValue(digits) ==
    IF digits = << >> THEN 0
    ELSE DigitValue(Head(digits)) * Pow10(Len(digits) - 1) + DecimalValue(Tail(digits))

\* C4: on a judge response that holds a well-formed "<LABEL> SCORE: n" line for the
\* requested label the parser returns the n of the first such line; on a response
\* with no such line it returns None, never 0, and it never raises.
ExtractScoreCorrect ==
    ret.op \in ParserOps =>
        /\ ~ret.raised
        /\ IF ScoreLines(analysis_text, ret.label) = {}
           THEN ret.value = None /\ ret.value # Some(0)
           ELSE LET t == FirstScoreLine(analysis_text, ret.label)
                IN  ret.value = Some(DecimalValue(SubSeq(analysis_text, t[2], t[3] - 1)))

ExtractScoreCorrectWitness ==
    /\ ret.op = "_extract_score_from_evaluation"
    /\ Cardinality(ScoreLines(analysis_text, ScoreLabel)) = 2
    /\ ret.value = Some(10)

\* C5: every score the parser returns is None or a number in 0..100; a labelled
\* score outside that range yields None.
ParsedScoreInRange ==
    ret.op \in ParserOps /\ ret.value # None => ret.value[1] \in 0..100

----------------------------------------------------------------------------
(* Analyzer: get_quality_summary over a list of analysis result dicts
   {"type", "score", "content"}; the content is not read by the summary. *)

MaxAnalyses == 3

Dimensions == {"clarity", "completeness", "efficiency", "safety", "general"}
DimensionOrder == <<"clarity", "completeness", "efficiency", "safety", "general">>
AnalysisScores == {None, Some(0), Some(80), Some(95)}
AnalysisDicts == [type : Dimensions, score : AnalysisScores]

(* what analyze_all_dimensions returns: one result per dimension, in order *)
FullRuns ==
    {[i \in 1..5 |-> [type |-> DimensionOrder[i], score |-> f[i]]] :
        f \in [1..5 -> AnalysisScores]}
AnalysisLists == FullRuns \cup UNION {[1..n -> AnalysisDicts] : n \in 0..MaxAnalyses}

(* Python's true division of two ints, kept as the exact quotient num/den *)
TrueDiv(a, b) == [num |-> a, den |-> b]
SameQuotient(x, y) == x.num * y.den = y.num * x.den

(* get_quality_summary, lines 230-234: the body of the loop *)
QualityStepCountingGeneral(acc, analysis) ==
    IF analysis.score # None
    THEN [dimension_scores |->
              (analysis.type :> analysis.score[1]) @@ acc.dimension_scores,
          total_score |-> acc.total_score + analysis.score[1],
          count |-> acc.count + 1]
    ELSE acc
QualityStep(acc, analysis) ==
    IF analysis.score # None
    THEN [dimension_scores |->
              (analysis.type :> analysis.score[1]) @@ acc.dimension_scores,
          total_score |->
              IF analysis.type # "general"
              THEN acc.total_score + analysis.score[1] ELSE acc.total_score,
          count |-> IF analysis.type # "general" THEN acc.count + 1 ELSE acc.count]
    ELSE acc

(* lines 225-234: the loop over the first n analyses *)
RECURSIVE QualityLoop(_, _)
QualityLoop(list, n) ==
    IF n = 0 THEN [dimension_scores |-> << >>, total_score |-> 0, count |-> 0]
    ELSE QualityStep(QualityLoop(list, n - 1), list[n])

(* line 236 *)
AverageOrZero(total_score, count) ==
    IF count > 0 THEN Some(TrueDiv(total_score, count)) ELSE Some(TrueDiv(0, 1))
Average(total_score, count) ==
    IF count > 0 THEN Some(TrueDiv(total_score, count)) ELSE None

(* lines 238-242 *)
QualitySummary(list) ==
    LET acc == QualityLoop(list, Len(list))
    IN  [average_score |-> Average(acc.total_score, acc.count),
         dimension_scores |-> acc.dimension_scores,
         total_analyses |-> Len(list)]

GetQualitySummary ==
    /\ ret' = [op |-> "get_quality_summary", raised |-> FALSE,
               value |-> QualitySummary(analyses)]
    /\ UNCHANGED <<storeVars, sessions, oracle_calls, inputVars>>

SummaryInit ==
    /\ EmptyStore
    /\ analysis_text = << >>
    /\ analyses \in AnalysisLists
    /\ response = << >>
    /\ request = None

SummaryNext == GetQualitySummary

SummarySpec == SummaryInit /\ [][SummaryNext]_vars

(* Positions of the results that count towards the average *)
Counted(list) == {i \in 1..Len(list) : list[i].score # None /\ list[i].type # "general"}

RECURSIVE SumOfScores(_, _)
SumOfScores(list, S) ==
    IF S = {} THEN 0
    ELSE LET i == CHOOSE x \in S : TRUE
         IN  list[i].score[1] + SumOfScores(list, S \ {i})

PresentOfType(list, d) == {i \in 1..Len(list) : list[i].score # None /\ list[i].type = d}

\* C6: the average_score of get_quality_summary is the arithmetic mean of the
\* present scores of the results whose type is not general; a present general score
\* enters neither the sum nor the count, and it does appear in dimension_scores.
QualityAverageExcludesGeneral ==
    ret.op = "get_quality_summary" =>
        /\ Counted(analyses) # {} =>
               /\ ret.value.average_score # None
               /\ SameQuotient(ret.value.average_score[1],
                               TrueDiv(SumOfScores(analyses, Counted(analyses)),
                                       Cardinality(Counted(analyses))))
        /\ \A d \in Dimensions :
               IF PresentOfType(analyses, d) = {}
               THEN d \notin DOMAIN ret.value.dimension_scores
               ELSE /\ d \in DOMAIN ret.value.dimension_scores
                    /\ ret.value.dimension_scores[d]
                           = analyses[Max(PresentOfType(analyses, d))].score[1]

QualityAverageWitness ==
    /\ ret.op = "get_quality_summary"
    /\ Len(analyses) = 5
    /\ analyses[5] = [type |-> "general", score |-> Some(95)]
    /\ analyses[1].score = Some(80) /\ analyses[2].score = Some(80)
    /\ analyses[3].score = None /\ analyses[4].score = Some(0)
    /\ ret.value.average_score = Some(TrueDiv(160, 3))
    /\ ret.value.dimension_scores["general"] = 95

\* C7: when no result other than general has a present score the average_score is
\* None, not 0 and not an error; total_analyses is the number of results given,
\* whatever scores are absent.
QualityAverageAbsent ==
    ret.op = "get_quality_summary" =>
        /\ ~ret.raised
        /\ ret.value.total_analyses = Len(analyses)
        /\ Counted(analyses) = {} => ret.value.average_score = None

QualityAverageAbsentWitness ==
    /\ ret.op = "get_quality_summary"
    /\ Len(analyses) = 5
    /\ \A i \in 1..4 : analyses[i].score = None
    /\ analyses[5].score = Some(95)
    /\ ret.value.average_score = None
    /\ ret.value.total_analyses = 5

----------------------------------------------------------------------------
(* Tester: get_test_summary over the test_results rows of a version *)

(* line 281: "Consider >= 70 as passing" *)
PassingScore == 70

TestScores == {None, Some(0), Some(60), Some(70), Some(95)}
SummaryVersionIds == {1, 2}

(* rows in rowid order, as a query without ORDER BY lists them *)
RECURSIVE InIdOrder(_)
InIdOrder(ids) ==
    IF ids = {} THEN << >> ELSE <<Min(ids)>> \o InIdOrder(ids \ {Min(ids)})

(* get_test_results: the rows of the version *)
GetTestResults(version_id) ==
    LET ids == InIdOrder({r \in DOMAIN test_results :
                             test_results[r].version_id = version_id})
    IN  [i \in 1..Len(ids) |-> test_results[ids[i]]]

(* line 277: the present scores *)
RECURSIVE PresentScores(_)
PresentScores(results) ==
    IF results = << >> THEN << >>
    ELSE (IF Head(results).score # None THEN <<Head(results).score[1]>> ELSE << >>)
         \o PresentScores(Tail(results))

RECURSIVE SumSeq(_)
SumSeq(scores) == IF scores = << >> THEN 0 ELSE Head(scores) + SumSeq(Tail(scores))

IsPassingStrictly(s) == s > PassingScore
IsPassing(s) == s >= PassingScore

(* line 281 *)
RECURSIVE CountPassed(_)
CountPassed(scores) ==
    IF scores = << >> THEN 0
    ELSE (IF IsPassing(Head(scores)) THEN 1 ELSE 0) + CountPassed(Tail(scores))

(* get_test_summary *)
TestSummary(version_id) ==
    LET results == GetTestResults(version_id)
        scores == PresentScores(results)
        passed == CountPassed(scores)
    IN  IF results = << >>
        THEN [total_tests |-> 0, average_score |-> None, passed |-> 0, failed |-> 0]
        ELSE [total_tests |-> Len(results),
              average_score |-> IF scores # << >>
                                THEN Some(TrueDiv(SumSeq(scores), Len(scores)))
                                ELSE None,
              passed |-> passed,
              failed |-> Len(scores) - passed,
              results |-> results]

GetTestSummary(version_id) ==
    /\ ret' = [op |-> "get_test_summary", raised |-> FALSE, version_id |-> version_id,
               value |-> TestSummary(version_id)]
    /\ oracle_calls' = NoCalls
    /\ UNCHANGED <<storeVars, sessions, inputVars>>

TestSummaryNext ==
    \/ \E v \in SummaryVersionIds, sc \in TestScores : SaveTestResult(1, v, "out", sc)
    \/ \E v \in SummaryVersionIds : GetTestSummary(v)

TestSummarySpec == StoreInit /\ [][TestSummaryNext]_vars

ResultsOf(version_id) ==
    {r \in DOMAIN test_results : test_results[r].version_id = version_id}
ScoredResultsOf(version_id) ==
    {r \in ResultsOf(version_id) : test_results[r].score # None}

RECURSIVE SumOfRowScores(_)
SumOfRowScores(S) ==
    IF S = {} THEN 0
    ELSE LET r == CHOOSE x \in S : TRUE
         IN  test_results[r].score[1] + SumOfRowScores(S \ {r})

\* C8: get_test_summary of a version returns total_tests = the number of its
\* results, passed = the number of present scores >= 70, failed = the number of
\* present scores minus passed, average_score = the mean of the present scores
\* (None when there is none); so passed + failed <= total_tests, with equality
\* exactly when no score is absent.
TestSummaryCorrect ==
    ret.op = "get_test_summary" =>
        LET all == ResultsOf(ret.version_id)
            scored == ScoredResultsOf(ret.version_id)
            s == ret.value
        IN  /\ ~ret.raised
            /\ s.total_tests = Cardinality(all)
            /\ s.passed = Cardinality({r \in scored : test_results[r].score[1] >= 70})
            /\ s.failed = Cardinality(scored) - s.passed
            /\ IF scored = {} THEN s.average_score = None
               ELSE /\ s.average_score # None
                    /\ SameQuotient(s.average_score[1],
                                    TrueDiv(SumOfRowScores(scored), Cardinality(scored)))
            /\ s.passed + s.failed <= s.total_tests
            /\ (s.passed + s.failed = s.total_tests) <=> (scored = all)

TestSummaryWitness ==
    /\ ret.op = "get_test_summary"
    /\ Cardinality(ResultsOf(ret.version_id)) = 4
    /\ {test_results[r].score : r \in ResultsOf(ret.version_id)}
           = {Some(95), Some(60), Some(70), None}
    /\ ret.value.total_tests = 4
    /\ ret.value.passed = 2
    /\ ret.value.failed = 1
    /\ ret.value.average_score = Some(TrueDiv(225, 3))

----------------------------------------------------------------------------
(* Tester: compare_versions.  The oracle is the client's create_message; an
   operation is given a script, the outcome of its 1st, 2nd, ... oracle call:
   a text, or an error the client raises once its own retries are spent. *)

MaxCompare == 2

OracleText == [ok |-> TRUE, text |-> "text"]
OracleError == [ok |-> FALSE, text |-> "APIError"]
(* a call that raises ends the operation, so a script is determined by the
   position of its first error; 0 is the script without one *)
OracleScript(fail_at) ==
    [i \in 1..(MaxCompare + 1) |-> IF i = fail_at THEN OracleError ELSE OracleText]
OracleScripts == {OracleScript(fail_at) : fail_at \in 0..(MaxCompare + 1)}

(* ids a caller may pass: rows that exist, rows not created yet, and 9, never a row *)
CompareVersionIds == {1, 2, 9}
CompareLists == UNION {[1..n -> CompareVersionIds] : n \in 0..MaxCompare}

(* get_version *)
GetVersion(version_id) ==
    IF version_id \in DOMAIN versions THEN Some(versions[version_id]) ELSE None

(* session.query(TestCaseModel).filter_by(id=test_case_id).first() *)
GetTestCase(test_case_id) ==
    IF test_case_id \in DOMAIN test_cases THEN Some(test_cases[test_case_id]) ELSE None

(* compare_versions, lines 204-231: one turn of the loop.  st is the loop's state:
   the responses so far, the oracle calls so far, and whether a call has raised *)
CompareStepWithoutTestCaseCheck(st, version_id, test_case_id, script) ==
    IF st.raised \/ GetVersion(version_id) = None THEN st
    ELSE LET version == GetVersion(version_id)[1]
             reply == script[Len(st.calls) + 1]
             calls == Append(st.calls, [fn |-> "test_prompt",
                                        system_prompt |-> version.content,
                                        prompt |-> <<"input", test_case_id>>,
                                        ok |-> reply.ok])
         IN  IF reply.ok /\ GetTestCase(test_case_id) # None
             THEN [responses |-> Append(st.responses,
                                        [name |-> <<"Version", version.version>>,
                                         response |-> reply.text,
                                         version_id |-> version_id]),
                   calls |-> calls, raised |-> FALSE]
             ELSE [responses |-> st.responses, calls |-> calls, raised |-> TRUE]
(* the loop's turn putting the new response in front of the earlier ones *)
CompareStepPrepending(st, version_id, test_case_id, script) ==
    IF st.raised THEN st
    ELSE IF GetVersion(version_id) = None THEN st
    ELSE IF GetTestCase(test_case_id) = None THEN st
    ELSE LET version == GetVersion(version_id)[1]
             reply == script[Len(st.calls) + 1]
             calls == Append(st.calls, [fn |-> "test_prompt",
                                        system_prompt |-> version.content,
                                        prompt |-> GetTestCase(test_case_id)[1].input_text,
                                        ok |-> reply.ok])
         IN  IF reply.ok
             THEN [responses |-> <<[name |-> <<"Version", version.version>>,
                                    response |-> reply.text,
                                    version_id |-> version_id]>> \o st.responses,
                   calls |-> calls, raised |-> FALSE]
             ELSE [responses |-> st.responses, calls |-> calls, raised |-> TRUE]
CompareStep(st, version_id, test_case_id, script) ==
    IF st.raised THEN st
    ELSE IF GetVersion(version_id) = None THEN st
    ELSE IF GetTestCase(test_case_id) = None THEN st
    ELSE LET version == GetVersion(version_id)[1]
             reply == script[Len(st.calls) + 1]
             calls == Append(st.calls, [fn |-> "test_prompt",
                                        system_prompt |-> version.content,
                                        prompt |-> GetTestCase(test_case_id)[1].input_text,
                                        ok |-> reply.ok])
         IN  IF reply.ok
             THEN [responses |-> Append(st.responses,
                                        [name |-> <<"Version", version.version>>,
                                         response |-> reply.text,
                                         version_id |-> version_id]),
                   calls |-> calls, raised |-> FALSE]
             ELSE [responses |-> st.responses, calls |-> calls, raised |-> TRUE]

(* lines 202-231: the loop over the first n version ids *)
RECURSIVE CompareLoop(_, _, _, _)
CompareLoop(version_ids, test_case_id, script, n) ==
    IF n = 0 THEN [responses |-> << >>, calls |-> NoCalls, raised |-> FALSE]
    ELSE CompareStep(CompareLoop(version_ids, test_case_id, script, n - 1),
                     version_ids[n], test_case_id, script)

(* lines 233-255: the outcome, as [raised, value, calls] *)
CompareOutcome(version_ids, test_case_id, script) ==
    LET st == CompareLoop(version_ids, test_case_id, script, Len(version_ids))
        reply == script[Len(st.calls) + 1]
        calls == Append(st.calls, [fn |-> "compare_responses",
                                   system_prompt |-> "none",
                                   prompt |-> <<"compare", st.responses>>,
                                   ok |-> reply.ok])
    IN  IF st.raised
        THEN [raised |-> TRUE, value |-> "APIError", calls |-> st.calls]
        ELSE IF st.responses = << >>
        THEN [raised |-> FALSE, value |-> [error |-> "No valid versions to compare"],
              calls |-> st.calls]
        ELSE IF reply.ok
        THEN [raised |-> FALSE,
              value |-> [test_case_id |-> test_case_id, responses |-> st.responses,
                         comparison |-> reply.text],
              calls |-> calls]
        ELSE [raised |-> TRUE, value |-> "APIError", calls |-> calls]

CompareVersions(version_ids, test_case_id, script) ==
    LET out == CompareOutcome(version_ids, test_case_id, script)
    IN  /\ ret' = [op |-> "compare_versions", raised |-> out.raised,
                   version_ids |-> version_ids, test_case_id |-> test_case_id,
                   value |-> out.value]
        /\ oracle_calls' = out.calls
        /\ UNCHANGED <<storeVars, sessions, inputVars>>

CompareRequests == [version_ids : CompareLists, test_case_id : TestCaseIds]

CompareInit ==
    /\ EmptyStore
    /\ analysis_text = << >>
    /\ analyses = << >>
    /\ response = << >>
    /\ request \in CompareRequests

CompareNext ==
    \/ CreatePrompt("c1")
    \/ CreateVersion(1, "c2")
    \/ CreateTestCase(1)
    \/ \E t \in TestCaseIds : DeleteTestCase(t)
    \/ \E script \in OracleScripts :
           CompareVersions(request.version_ids, request.test_case_id, script)

CompareSpec == CompareInit /\ [][CompareNext]_vars

\* C9: compare_versions given version ids none of which resolves to a stored
\* version, or a test case id that does not exist, returns the explicit error
\* result, does not raise, and makes no oracle call.
CompareWithoutTargetsIsError ==
    (/\ ret.op = "compare_versions"
     /\ \/ \A i \in 1..Len(ret.version_ids) : ret.version_ids[i] \notin DOMAIN versions
        \/ ret.test_case_id \notin DOMAIN test_cases)
    => /\ ~ret.raised
       /\ DOMAIN ret.value = {"error"}
       /\ oracle_calls = NoCalls

CompareWithoutTargetsWitness ==
    /\ ret.op = "compare_versions"
    /\ Len(ret.version_ids) = 2
    /\ ret.version_ids[1] \in DOMAIN versions
    /\ ret.test_case_id \notin DOMAIN test_cases
    /\ DOMAIN test_cases # {}
    /\ ret.value = [error |-> "No valid versions to compare"]
    /\ oracle_calls = NoCalls

(* the given ids that name a stored version, in the order given *)
Resolved(version_ids) == SelectSeq(version_ids, LAMBDA v : v \in DOMAIN versions)

\* C22: compare_versions on a stored test case with k >= 1 of the given ids
\* naming stored versions makes its oracle calls one after the other, the j-th
\* being the output-producing call for the j-th resolved id (that version's
\* content as system prompt, the test case's input as prompt); when no call fails
\* these are exactly k such calls followed by exactly one comparison call, and
\* the result holds k responses in the order of the given ids, the j-th named
\* "Version n" after the number n of the j-th resolved version and carrying its
\* id; ids that do not resolve are skipped and no test result is written.
CompareVersionsCallsInOrder ==
    [][(/\ ret'.op = "compare_versions"
        /\ request.test_case_id \in DOMAIN test_cases
        /\ Len(Resolved(request.version_ids)) >= 1) =>
           LET resolved == Resolved(request.version_ids)
               k == Len(resolved)
               calls == oracle_calls'
               expected == [j \in 1..k |->
                               [name |-> <<"Version", versions[resolved[j]].version>>,
                                response |-> "text",
                                version_id |-> resolved[j]]]
           IN  /\ test_results' = test_results
               /\ Len(calls) >= 1 /\ Len(calls) <= k + 1
               /\ \A j \in 1..Len(calls) :
                      /\ j < Len(calls) => calls[j].ok
                      /\ j <= k =>
                             /\ calls[j].fn = "test_prompt"
                             /\ calls[j].system_prompt = versions[resolved[j]].content
                             /\ calls[j].prompt = <<"input", request.test_case_id>>
                      /\ j = k + 1 =>
                             /\ calls[j].fn = "compare_responses"
                             /\ calls[j].prompt = <<"compare", expected>>
               /\ ret'.raised <=> ~calls[Len(calls)].ok
               /\ ~ret'.raised =>
                      /\ Len(calls) = k + 1
                      /\ ret'.value.responses = expected
                      /\ ret'.value.test_case_id = request.test_case_id]_vars

CompareVersionsCallsInOrderWitness ==
    /\ ret.op = "compare_versions"
    /\ ~ret.raised
    /\ request.version_ids = <<2, 1>>
    /\ Len(oracle_calls) = 3
    /\ oracle_calls[3].fn = "compare_responses"
    /\ Len(ret.value.responses) = 2
    /\ ret.value.responses[1].version_id = 2
    /\ ret.value.responses[1].name = <<"Version", 1>>
    /\ ret.value.responses[2].version_id = 1

----------------------------------------------------------------------------
(* Oracle client: generate_variants.  The judge response is split at its line
   breaks; a line is a token: a "VARIANT n:" header, the "---" delimiter, a
   line of text, or a blank line.  A string with line breaks is the sequence
   of its lines; the empty string is the empty sequence. *)

MaxLines == 6
MaxBlocks == 2

Headers == <<"VARIANT 1:", "VARIANT 2:", "VARIANT 3:", "VARIANT 4:">>
Delimiter == "---"
BlankLine == ""
LineTokens == {Headers[1], Delimiter, "a", "b", BlankLine}

(* line.startswith('VARIANT') *)
IsVariantHeader(line) == \E n \in 1..Len(Headers) : line = Headers[n]

(* line.strip() == '---' *)
IsDelimiter(line) == line = Delimiter

(* '\n'.join(current_variant).strip(): the white space at both ends goes, and
   with it the blank lines that begin and end the joined text *)
RECURSIVE Strip(_)
Strip(text) ==
    IF text = << >> THEN << >>
    ELSE IF Head(text) = BlankLine THEN Strip(Tail(text))
    ELSE IF text[Len(text)] = BlankLine THEN Strip(SubSeq(text, 1, Len(text) - 1))
    ELSE text

(* lines 332-344: one turn of the loop over the lines *)
VariantStep(st, line) ==
    IF IsVariantHeader(line)
    THEN [variants |-> IF st.current_variant # << >> /\ st.in_variant
                       THEN Append(st.variants, Strip(st.current_variant))
                       ELSE st.variants,
          current_variant |-> << >>,
          in_variant |-> FALSE]
    ELSE IF IsDelimiter(line)
    THEN [st EXCEPT !.in_variant = ~st.in_variant]
    ELSE IF st.in_variant
    THEN [st EXCEPT !.current_variant = Append(st.current_variant, line)]
    ELSE st

(* lines 327-344: the loop over the first n lines *)
RECURSIVE VariantLoop(_, _)
VariantLoop(lines, n) ==
    IF n = 0 THEN [variants |-> << >>, current_variant |-> << >>, in_variant |-> FALSE]
    ELSE VariantStep(VariantLoop(lines, n - 1), lines[n])

(* the parser returning every variant it collected *)
ParseVariantsUnsliced(lines, num_variants) ==
    LET st == VariantLoop(lines, Len(lines))
    IN  IF st.current_variant # << >> /\ st.in_variant
        THEN Append(st.variants, Strip(st.current_variant))
        ELSE st.variants

(* lines 346-349: the block left open at the end, and variants[:num_variants] *)
ParseVariants(lines, num_variants) ==
    LET st == VariantLoop(lines, Len(lines))
        variants == IF st.current_variant # << >> /\ st.in_variant
                    THEN Append(st.variants, Strip(st.current_variant))
                    ELSE st.variants
    IN  SubSeq(variants, 1, Min({Len(variants), num_variants}))

(* generate_variants: one oracle call, then the parser; an error of the call
   is not caught *)
GenerateVariants(num_variants, reply_ok) ==
    /\ ret' = IF reply_ok
              THEN [op |-> "generate_variants", raised |-> FALSE,
                    num_variants |-> num_variants,
                    value |-> ParseVariants(response, num_variants)]
              ELSE [op |-> "generate_variants", raised |-> TRUE,
                    num_variants |-> num_variants, value |-> "APIError"]
    /\ oracle_calls' = <<[fn |-> "create_message", system_prompt |-> "none",
                          prompt |-> <<"variants", num_variants>>, ok |-> reply_ok]>>
    /\ UNCHANGED <<storeVars, sessions, inputVars>>

(* The judge following the template of lines 308-321: for each variant a
   header, the delimiter, the variant's lines, the delimiter, a blank line *)
Bodies == {<<"a">>, <<"b">>, <<"a", "b">>}
BodyLists == UNION {[1..k -> Bodies] : k \in 0..MaxBlocks}

RECURSIVE Render(_, _)
Render(bodies, k) ==
    IF k = 0 THEN << >>
    ELSE Render(bodies, k - 1) \o <<Headers[k], Delimiter>> \o bodies[k]
             \o <<Delimiter, BlankLine>>

TemplateResponses == {Render(bodies, Len(bodies)) : bodies \in BodyLists}
FreeResponses == UNION {[1..n -> LineTokens] : n \in 0..MaxLines}

VariantInit ==
    /\ EmptyStore
    /\ analysis_text = << >>
    /\ analyses = << >>
    /\ response \in FreeResponses \cup TemplateResponses
    /\ request = None

VariantNext ==
    \E num_variants \in 1..(MaxBlocks + 1), reply_ok \in BOOLEAN :
        GenerateVariants(num_variants, reply_ok)

VariantSpec == VariantInit /\ [][VariantNext]_vars

\* C10: on a judge response made of exactly k well-formed blocks (header line,
\* "---" line, body lines, closing "---" line), k less than the requested
\* count, the variant parser returns exactly the k bodies in order; 2 blocks
\* with 3 requested give exactly 2 variants.
WellFormedBlocksReturned ==
    \A bodies \in BodyLists :
        (/\ ret.op = "generate_variants"
         /\ ~ret.raised
         /\ response = Render(bodies, Len(bodies))
         /\ Len(bodies) < ret.num_variants)
        => ret.value = bodies

\* C23: for every judge response (any sequence of header lines, "---" lines
\* and other lines) and every requested count >= 1, the variant parser ends
\* without an error and returns a sequence of at most count strings.
VariantsAtMostCount ==
    (ret.op = "generate_variants" /\ oracle_calls[1].ok) =>
        /\ ~ret.raised
        /\ ret.num_variants >= 1
        /\ Len(ret.value) <= ret.num_variants
        /\ \A i \in 1..Len(ret.value) :
               /\ ret.value[i] \in Seq(LineTokens)
               /\ Len(ret.value[i]) <= Len(response)

VariantsAtMostCountWitness ==
    /\ ret.op = "generate_variants"
    /\ ~ret.raised
    /\ ret.num_variants = 1
    /\ response = <<"---", "a", "VARIANT 1:", "---", "b">>
    /\ ret.value = << <<"a">> >>

(* a line that is neither a header nor the delimiter *)
IsBodyLine(line) == ~IsVariantHeader(line) /\ ~IsDelimiter(line)

\* C24: in the variant parser a block opened by a "---" line that has
\* collected at least one line is emitted as a variant whether it ends at a
\* closing "---", at the next header or at the end of the input, and lines
\* seen while capture is off are in no emitted variant: when the first "---"
\* of the response is followed by one or more body lines up to such an end,
\* the first variant returned is those body lines, stripped.
OpenedBlockEmitted ==
    (ret.op = "generate_variants" /\ ~ret.raised) =>
        \A i \in 1..Len(response) : \A j \in (i + 1)..Len(response) :
            (/\ IsDelimiter(response[i])
             /\ \A h \in 1..(i - 1) : ~IsDelimiter(response[h])
             /\ \A h \in (i + 1)..j : IsBodyLine(response[h])
             /\ j = Len(response) \/ ~IsBodyLine(response[j + 1]))
            => /\ Len(ret.value) >= 1
               /\ ret.value[1] = Strip(SubSeq(response, i + 1, j))

----------------------------------------------------------------------------
(* Cascade of delete_prompt over all five tables.  Rows are written with the
   ids their callers give: create_test_case, save_analysis and save_test_result
   do not look the ids up, and SQLite does not enforce the foreign keys. *)

MaxCascadeResults == 2

CascadeIds == {1, 2}

CascadeNext ==
    \/ CreatePrompt("c1")
    \/ CreateVersion(1, "c2")
    \/ \E p \in CascadeIds : CreateTestCase(p)
    \/ SaveAnalysis(1, "clarity", Some(80))
    \/ \E t \in CascadeIds :
           /\ Cardinality(DOMAIN test_results) < MaxCascadeResults
           /\ SaveTestResult(t, 2, "out", Some(80))
    \/ \E p \in PromptIds : DeletePrompt(p)

CascadeSpec == StoreInit /\ [][CascadeNext]_vars

\* C11: a delete_prompt step that removes prompt p leaves no version and no test
\* case with prompt id p, no analysis whose version belonged to p and no test
\* result whose version or test case belonged to p; every other row of the five
\* tables is still there with the values it had.
DeletePromptCascades ==
    [][\A p \in DOMAIN prompts :
          (ret'.op = "delete_prompt" /\ p \notin DOMAIN prompts') =>
              LET vs == {v \in DOMAIN versions : versions[v].prompt_id = p}
                  ts == {t \in DOMAIN test_cases : test_cases[t].prompt_id = p}
                  as == {a \in DOMAIN analysis_results :
                            analysis_results[a].version_id \in vs}
                  rs == {r \in DOMAIN test_results :
                            \/ test_results[r].version_id \in vs
                            \/ test_results[r].test_case_id \in ts}
              IN  /\ \A v \in DOMAIN versions' : versions'[v].prompt_id # p
                  /\ \A t \in DOMAIN test_cases' : test_cases'[t].prompt_id # p
                  /\ \A a \in DOMAIN analysis_results' :
                         analysis_results'[a].version_id \notin vs
                  /\ \A r \in DOMAIN test_results' :
                         /\ test_results'[r].version_id \notin vs
                         /\ test_results'[r].test_case_id \notin ts
                  /\ prompts' = [q \in DOMAIN prompts \ {p} |-> prompts[q]]
                  /\ versions' = [v \in DOMAIN versions \ vs |-> versions[v]]
                  /\ test_cases' = [t \in DOMAIN test_cases \ ts |-> test_cases[t]]
                  /\ analysis_results' =
                         [a \in DOMAIN analysis_results \ as |-> analysis_results[a]]
                  /\ test_results' =
                         [r \in DOMAIN test_results \ rs |-> test_results[r]]]_vars

(* prompt 1 removed with its versions, its test case and the result of that test
   case on the other prompt's version; prompt 2 keeps its rows *)
DeletePromptCascadesWitness ==
    /\ ret.op = "delete_prompt"
    /\ DOMAIN prompts = {2}
    /\ DOMAIN versions = {2}
    /\ DOMAIN test_cases = {2}
    /\ test_cases[2].prompt_id = 2
    /\ DOMAIN analysis_results = {}
    /\ DOMAIN test_results = {2}
    /\ test_results[2] = [test_case_id |-> 2, version_id |-> 2, output |-> "out",
                          score |-> Some(80), evaluation |-> None]

----------------------------------------------------------------------------
(* Tester: run_test.  Two oracle calls: test_prompt for the output, then
   _evaluate_output (create_message) for the judge's evaluation.  The call
   numbered fail_at, counted over the whole operation, raises; 0: none does. *)

(* what the judge may answer: a text with a score line, a text without one *)
Evaluations == {<<"SCORE:", " ", "1", "0", "0">>, <<"x">>}

(* get_test_cases: the test cases of a prompt, as the query lists them *)
GetAllTestCases(prompt_id) == InIdOrder(DOMAIN test_cases)
GetTestCases(prompt_id) == InIdOrder(TestCasesOf(prompt_id))

(* run_test, lines 43-87, as one turn over the state st of the enclosing
   operation: rows is the test_results table, calls the oracle calls so far,
   results the result dicts so far.  call holds the arguments version_id,
   test_case_id, system_prompt and save_result. *)
RunTestStepWithoutLookup(st, call, fail_at, evaluation) ==
    IF st.raised THEN st
    ELSE LET input_text == IF GetTestCase(call.test_case_id) = None THEN <<"input", 0>>
                           ELSE GetTestCase(call.test_case_id)[1].input_text
             output == OracleText.text
             calls1 == Append(st.calls, [fn |-> "test_prompt",
                                         system_prompt |-> call.system_prompt,
                                         prompt |-> input_text,
                                         ok |-> Len(st.calls) + 1 # fail_at])
             calls2 == Append(calls1, [fn |-> "create_message",
                                       system_prompt |-> "none",
                                       prompt |-> <<"evaluate", output>>,
                                       ok |-> Len(st.calls) + 2 # fail_at])
             score == ExtractScoreFromEvaluation(evaluation)
         IN  IF Len(calls1) = fail_at
             THEN [st EXCEPT !.calls = calls1, !.raised = TRUE, !.error = "APIError"]
             ELSE IF Len(calls2) = fail_at
             THEN [st EXCEPT !.calls = calls2, !.raised = TRUE, !.error = "APIError"]
             ELSE [rows |-> IF call.save_result
                            THEN InsertTestResult(st.rows, call.test_case_id,
                                                  call.version_id, output, score,
                                                  Some(evaluation))
                            ELSE st.rows,
                   calls |-> calls2,
                   results |-> Append(st.results,
                                      [test_case_id |-> call.test_case_id,
                                       output |-> output,
                                       score |-> score, evaluation |-> evaluation]),
                   raised |-> FALSE, error |-> "none"]
RunTestStepAlwaysSaving(st, call, fail_at, evaluation) ==
    IF st.raised THEN st
    ELSE IF GetTestCase(call.test_case_id) = None
    THEN [st EXCEPT !.raised = TRUE, !.error = "ValueError"]
    ELSE LET test_case == GetTestCase(call.test_case_id)[1]
             output == OracleText.text
             calls1 == Append(st.calls, [fn |-> "test_prompt",
                                         system_prompt |-> call.system_prompt,
                                         prompt |-> test_case.input_text,
                                         ok |-> Len(st.calls) + 1 # fail_at])
             calls2 == Append(calls1, [fn |-> "create_message",
                                       system_prompt |-> "none",
                                       prompt |-> <<"evaluate", output>>,
                                       ok |-> Len(st.calls) + 2 # fail_at])
             score == ExtractScoreFromEvaluation(evaluation)
         IN  IF Len(calls1) = fail_at
             THEN [st EXCEPT !.calls = calls1, !.raised = TRUE, !.error = "APIError"]
             ELSE IF Len(calls2) = fail_at
             THEN [st EXCEPT !.calls = calls2, !.raised = TRUE, !.error = "APIError"]
             ELSE [rows |-> InsertTestResult(st.rows, call.test_case_id,
                                             call.version_id, output, score,
                                             Some(evaluation)),
                   calls |-> calls2,
                   results |-> Append(st.results,
                                      [test_case_id |-> call.test_case_id,
                                       output |-> output,
                                       score |-> score, evaluation |-> evaluation]),
                   raised |-> FALSE, error |-> "none"]
RunTestStep(st, call, fail_at, evaluation) ==
    IF st.raised THEN st
    ELSE IF GetTestCase(call.test_case_id) = None
    THEN [st EXCEPT !.raised = TRUE, !.error = "ValueError"]
    ELSE LET test_case == GetTestCase(call.test_case_id)[1]
             output == OracleText.text
             calls1 == Append(st.calls, [fn |-> "test_prompt",
                                         system_prompt |-> call.system_prompt,
                                         prompt |-> test_case.input_text,
                                         ok |-> Len(st.calls) + 1 # fail_at])
             calls2 == Append(calls1, [fn |-> "create_message",
                                       system_prompt |-> "none",
                                       prompt |-> <<"evaluate", output>>,
                                       ok |-> Len(st.calls) + 2 # fail_at])
             score == ExtractScoreFromEvaluation(evaluation)
         IN  IF Len(calls1) = fail_at
             THEN [st EXCEPT !.calls = calls1, !.raised = TRUE, !.error = "APIError"]
             ELSE IF Len(calls2) = fail_at
             THEN [st EXCEPT !.calls = calls2, !.raised = TRUE, !.error = "APIError"]
             ELSE [rows |-> IF call.save_result
                            THEN InsertTestResult(st.rows, call.test_case_id,
                                                  call.version_id, output, score,
                                                  Some(evaluation))
                            ELSE st.rows,
                   calls |-> calls2,
                   results |-> Append(st.results,
                                      [test_case_id |-> call.test_case_id,
                                       output |-> output,
                                       score |-> score, evaluation |-> evaluation]),
                   raised |-> FALSE, error |-> "none"]

(* the state a tester operation starts from *)
RunStart ==
    [rows |-> test_results, calls |-> NoCalls, results |-> << >>,
     raised |-> FALSE, error |-> "none"]

RunTest(call, fail_at, evaluation) ==
    LET st == RunTestStep(RunStart, call, fail_at, evaluation)
    IN  /\ call.save_result => NextId(test_results) <= MaxResultRows
        /\ test_results' = st.rows
        /\ oracle_calls' = st.calls
        /\ ret' = [op |-> "run_test", raised |-> st.raised,
                   value |-> IF st.raised THEN st.error ELSE st.results[1]]
        /\ UNCHANGED <<prompts, versions, test_cases, analysis_results, sessions,
                       inputVars>>

(* ids a caller may pass: a row that exists or not yet, and 9, never a row *)
RunVersionIds == {1, 9}
RunRequests ==
    [version_id : RunVersionIds, test_case_id : TestCaseIds,
     system_prompt : {"c1"}, save_result : BOOLEAN]

RunInit ==
    /\ EmptyStore
    /\ analysis_text = << >>
    /\ analyses = << >>
    /\ response = << >>
    /\ request \in RunRequests

RunNext ==
    \/ CreatePrompt("c1")
    \/ CreateTestCase(1)
    \/ \E t \in TestCaseIds : DeleteTestCase(t)
    \/ \E fail_at \in 0..2, evaluation \in Evaluations :
           RunTest(request, fail_at, evaluation)

RunSpec == RunInit /\ [][RunNext]_vars

\* C12: run_test with a test case id that does not exist raises the not-found
\* error, makes no oracle call and writes no test result, whether or not the
\* result was to be saved.
RunTestMissingTestCase ==
    [][(ret'.op = "run_test" /\ request.test_case_id \notin DOMAIN test_cases) =>
           /\ ret'.raised
           /\ ret'.value = "ValueError"
           /\ oracle_calls' = NoCalls
           /\ test_results' = test_results]_vars

RunTestMissingTestCaseWitness ==
    /\ ret.op = "run_test"
    /\ request.save_result
    /\ request.test_case_id \notin DOMAIN test_cases
    /\ DOMAIN test_cases # {}
    /\ ret.raised
    /\ oracle_calls = NoCalls

----------------------------------------------------------------------------
(* create_version on a prompt id that may or may not name a prompt *)

CreateVersionRequests == [prompt_id : PromptIds, content : Contents]

CreateVersionInit ==
    /\ EmptyStore
    /\ analysis_text = << >>
    /\ analyses = << >>
    /\ response = << >>
    /\ request \in CreateVersionRequests

CreateVersionNext ==
    \/ \E c \in Contents : CreatePrompt(c)
    \/ \E p \in PromptIds : DeletePrompt(p)
    \/ CreateVersion(request.prompt_id, request.content)

CreateVersionSpec == CreateVersionInit /\ [][CreateVersionNext]_vars

\* C13: create_version on a prompt id that names no prompt raises the not-found
\* error and leaves the store as it was: no version row is added and no
\* prompt's current_version changes.
CreateVersionMissingPrompt ==
    [][(ret'.op = "create_version" /\ request.prompt_id \notin DOMAIN prompts) =>
           /\ ret'.raised
           /\ ret'.value = "ValueError"
           /\ versions' = versions
           /\ prompts' = prompts
           /\ UNCHANGED storeVars]_vars

CreateVersionMissingPromptWitness ==
    /\ ret.op = "create_version"
    /\ ret.raised
    /\ request.prompt_id \notin DOMAIN prompts
    /\ DOMAIN prompts # {}
    /\ DOMAIN versions # {}

----------------------------------------------------------------------------
(* Analyzer: analyze_<dimension> and analyze_all_dimensions.  Each dimension is
   one oracle call (analyze_prompt), the score parsed under the dimension's
   label, and a save_analysis when a version id is given.  call holds the
   arguments prompt and version_id; scored is the set of dimensions for which
   the judge's text carries a score line. *)

MaxAnalyzerRows == 5

LabelOf(dimension) ==
    CASE dimension = "clarity" -> ClarityLabel
      [] dimension = "completeness" -> <<"COMPLETENESS ", "SCORE:">>
      [] dimension = "efficiency" -> <<"EFFICIENCY ", "SCORE:">>
      [] dimension = "safety" -> <<"SAFETY ", "SCORE:">>
      [] dimension = "general" -> <<"OVERALL ", "SCORE:">>

(* the judge's analysis of a dimension *)
AnalysisTextOf(dimension, scored) ==
    IF dimension \in scored THEN LabelOf(dimension) \o <<" ", "1", "0">> ELSE <<"x">>

ScoredSets == {{}, {"general"}, Dimensions}

(* "if version_id:" *)
Truthy(version_id) == version_id # None /\ version_id[1] # 0

(* save_analysis that drops the content it is given *)
InsertAnalysisWithoutContent(table, version_id, analysis_type, content, score) ==
    (NextId(table) :>
        [version_id |-> version_id, analysis_type |-> analysis_type, score |-> score,
         content |-> << >>])
    @@ table

(* save_analysis into a given table *)
InsertAnalysis(table, version_id, analysis_type, content, score) ==
    (NextId(table) :>
        [version_id |-> version_id, analysis_type |-> analysis_type, score |-> score,
         content |-> content])
    @@ table

(* analyze_clarity .. analyze_comprehensive: one dimension, as a turn over the
   state st of the enclosing operation *)
AnalyzeStepSavingFirst(st, dimension, call, fail_at, scored) ==
    IF st.raised THEN st
    ELSE LET ok == Len(st.calls) + 1 # fail_at
             calls == Append(st.calls, [fn |-> "analyze_prompt",
                                        system_prompt |-> "none",
                                        prompt |-> <<dimension, call.prompt>>,
                                        ok |-> ok])
             analysis == AnalysisTextOf(dimension, scored)
             score == ExtractScore(analysis, LabelOf(dimension))
             rows == IF Truthy(call.version_id)
                     THEN InsertAnalysis(st.rows, call.version_id[1], dimension,
                                         analysis, score)
                     ELSE st.rows
         IN  IF ~ok
             THEN [st EXCEPT !.rows = rows, !.calls = calls, !.raised = TRUE,
                             !.error = "APIError"]
             ELSE [rows |-> rows,
                   calls |-> calls,
                   results |-> Append(st.results, [type |-> dimension, score |-> score,
                                                   content |-> analysis]),
                   raised |-> FALSE, error |-> "none"]
(* a dimension's turn that goes on to the next dimension when the call fails *)
AnalyzeStepSwallowingFailure(st, dimension, call, fail_at, scored) ==
    LET ok == Len(st.calls) + 1 # fail_at
        calls == Append(st.calls, [fn |-> "analyze_prompt",
                                   system_prompt |-> "none",
                                   prompt |-> <<dimension, call.prompt>>,
                                   ok |-> ok])
        analysis == AnalysisTextOf(dimension, scored)
        score == ExtractScore(analysis, LabelOf(dimension))
    IN  IF ~ok
        THEN [st EXCEPT !.calls = calls]
        ELSE [rows |-> IF Truthy(call.version_id)
                       THEN InsertAnalysis(st.rows, call.version_id[1], dimension,
                                           analysis, score)
                       ELSE st.rows,
              calls |-> calls,
              results |-> Append(st.results, [type |-> dimension, score |-> score,
                                              content |-> analysis]),
              raised |-> FALSE, error |-> "none"]
AnalyzeStep(st, dimension, call, fail_at, scored) ==
    IF st.raised THEN st
    ELSE LET ok == Len(st.calls) + 1 # fail_at
             calls == Append(st.calls, [fn |-> "analyze_prompt",
                                        system_prompt |-> "none",
                                        prompt |-> <<dimension, call.prompt>>,
                                        ok |-> ok])
             analysis == AnalysisTextOf(dimension, scored)
             score == ExtractScore(analysis, LabelOf(dimension))
         IN  IF ~ok
             THEN [st EXCEPT !.calls = calls, !.raised = TRUE, !.error = "APIError"]
             ELSE [rows |-> IF Truthy(call.version_id)
                            THEN InsertAnalysis(st.rows, call.version_id[1], dimension,
                                                analysis, score)
                            ELSE st.rows,
                   calls |-> calls,
                   results |-> Append(st.results, [type |-> dimension, score |-> score,
                                                   content |-> analysis]),
                   raised |-> FALSE, error |-> "none"]

AnalyzeStart ==
    [rows |-> analysis_results, calls |-> NoCalls, results |-> << >>,
     raised |-> FALSE, error |-> "none"]

(* analyze_all_dimensions, lines 206-211: the calls in the order of the source *)
DimensionOrderGeneralFirst == <<"general", "clarity", "completeness", "efficiency", "safety">>
AnalyzeOrder == DimensionOrder

RECURSIVE AnalyzeLoop(_, _, _, _)
AnalyzeLoop(call, fail_at, scored, n) ==
    IF n = 0 THEN AnalyzeStart
    ELSE AnalyzeStep(AnalyzeLoop(call, fail_at, scored, n - 1), AnalyzeOrder[n],
                     call, fail_at, scored)

AnalyzeClarity(call, fail_at, scored) ==
    LET st == AnalyzeStep(AnalyzeStart, "clarity", call, fail_at, scored)
    IN  /\ Truthy(call.version_id) => NextId(analysis_results) <= MaxAnalyzerRows
        /\ analysis_results' = st.rows
        /\ oracle_calls' = st.calls
        /\ ret' = [op |-> "analyze_clarity", raised |-> st.raised,
                   value |-> IF st.raised THEN st.error ELSE st.results[1]]
        /\ UNCHANGED <<prompts, versions, test_cases, test_results, sessions, inputVars>>

AnalyzeAllDimensions(call, fail_at, scored) ==
    LET st == AnalyzeLoop(call, fail_at, scored, Len(AnalyzeOrder))
    IN  /\ Truthy(call.version_id) =>
               NextId(analysis_results) + Len(AnalyzeOrder) - 1 <= MaxAnalyzerRows
        /\ analysis_results' = st.rows
        /\ oracle_calls' = st.calls
        /\ ret' = [op |-> "analyze_all_dimensions", raised |-> st.raised,
                   value |-> IF st.raised THEN st.error ELSE st.results]
        /\ UNCHANGED <<prompts, versions, test_cases, test_results, sessions, inputVars>>

AnalyzeRequests == [prompt : Contents, version_id : {None, Some(0), Some(1)}]

AnalyzerInit ==
    /\ EmptyStore
    /\ analysis_text = << >>
    /\ analyses = << >>
    /\ response = << >>
    /\ request \in AnalyzeRequests

AnalyzerNext ==
    \/ \E fail_at \in 0..1, scored \in ScoredSets : AnalyzeClarity(request, fail_at, scored)
    \/ \E fail_at \in 0..Len(AnalyzeOrder), scored \in ScoredSets :
           AnalyzeAllDimensions(request, fail_at, scored)

AnalyzerSpec == AnalyzerInit /\ [][AnalyzerNext]_vars

\* C17: analyze_all_dimensions issues its oracle calls one after the other in
\* the order clarity, completeness, efficiency, safety, general, a call being
\* made only once the calls before it have returned; when all five succeed it
\* returns exactly five results in that order, each of the type of its position.
AnalyzeAllInOrder ==
    ret.op = "analyze_all_dimensions" =>
        LET order == <<"clarity", "completeness", "efficiency", "safety", "general">>
        IN  /\ Len(oracle_calls) <= 5
            /\ \A i \in 1..Len(oracle_calls) :
                   /\ oracle_calls[i].fn = "analyze_prompt"
                   /\ oracle_calls[i].prompt = <<order[i], request.prompt>>
                   /\ i < Len(oracle_calls) => oracle_calls[i].ok
            /\ (\A i \in 1..Len(oracle_calls) : oracle_calls[i].ok) =>
                   /\ Len(oracle_calls) = 5
                   /\ ~ret.raised
                   /\ Len(ret.value) = 5
                   /\ \A i \in 1..5 : ret.value[i].type = order[i]

AnalyzeAllInOrderWitness ==
    /\ ret.op = "analyze_all_dimensions"
    /\ ~ret.raised
    /\ Len(oracle_calls) = 5
    /\ Len(ret.value) = 5
    /\ ret.value[5] = [type |-> "general", score |-> Some(10),
                       content |-> <<"OVERALL ", "SCORE:", " ", "1", "0">>]
    /\ Cardinality(DOMAIN analysis_results) = 5

----------------------------------------------------------------------------
(* Oracle failures inside the analyzer and the tester *)

FailureRequests ==
    [version_ids : {<<1>>, <<1, 2>>}, test_case_id : {1}, version_id : {1},
     system_prompt : {"c1"}, save_result : BOOLEAN]

FailureInit ==
    /\ EmptyStore
    /\ analysis_text = << >>
    /\ analyses = << >>
    /\ response = << >>
    /\ request \in FailureRequests

FailureNext ==
    \/ CreatePrompt("c1")
    \/ CreateTestCase(1)
    \/ \E fail_at \in 0..1 :
           AnalyzeClarity([prompt |-> request.system_prompt,
                           version_id |-> Some(request.version_id)],
                          fail_at, Dimensions)
    \/ \E fail_at \in 0..2, evaluation \in Evaluations :
           RunTest(request, fail_at, evaluation)
    \/ \E script \in OracleScripts :
           CompareVersions(request.version_ids, request.test_case_id, script)

FailureSpec == FailureInit /\ [][FailureNext]_vars

FailedCalls(calls) == {i \in 1..Len(calls) : ~calls[i].ok}

\* C14: when an oracle call fails inside analyze_clarity, run_test or
\* compare_versions, the failed call is the operation's last call (it is not
\* issued again and nothing follows it), the operation raises the oracle's error
\* as it is, and the step adds no analysis row and no test result row.
OracleFailurePropagates ==
    [][(/\ ret'.op \in {"analyze_clarity", "run_test", "compare_versions"}
        /\ FailedCalls(oracle_calls') # {}) =>
           /\ FailedCalls(oracle_calls') = {Len(oracle_calls')}
           /\ ret'.raised
           /\ ret'.value = OracleError.text
           /\ analysis_results' = analysis_results
           /\ test_results' = test_results]_vars

(* run_test whose judge call fails after the output was produced *)
OracleFailurePropagatesWitness ==
    /\ ret.op = "run_test"
    /\ request.save_result
    /\ Len(oracle_calls) = 2
    /\ oracle_calls[1].ok
    /\ ~oracle_calls[2].ok
    /\ ret.raised
    /\ test_results # << >>

----------------------------------------------------------------------------
(* Tester: generate_test_report.  The report is one f-string; its fields are
   evaluated from left to right and the first that raises ends the call. *)

(* line 314: in {summary['average_score']:.2f if ... else 'N/A'} everything
   after the colon is the format spec, not an expression.  float.__format__
   rejects it as an invalid specifier; None.__format__ rejects every spec
   that is not empty. *)
FormatAverage(average_score) ==
    IF average_score = None
    THEN [raised |-> TRUE, value |-> "TypeError"]
    ELSE [raised |-> TRUE, value |-> "ValueError"]

(* lines 303-311: summary['results'] is read first; the summary of a version
   without results has no such key (lines 270-275) *)
ReportOutcome(version_id) ==
    LET summary == TestSummary(version_id)
    IN  IF "results" \notin DOMAIN summary
        THEN [raised |-> TRUE, value |-> "KeyError"]
        ELSE FormatAverage(summary.average_score)

GenerateTestReport(prompt_id, version_id) ==
    /\ ret' = [op |-> "generate_test_report", raised |-> ReportOutcome(version_id).raised,
               version_id |-> version_id, value |-> ReportOutcome(version_id).value]
    /\ oracle_calls' = NoCalls
    /\ UNCHANGED <<storeVars, sessions, inputVars>>

ReportNext ==
    \/ CreatePrompt("c1")
    \/ \E sc \in {None, Some(80)} : SaveTestResult(1, 1, "out", sc)
    \/ \E p \in PromptIds, v \in SummaryVersionIds : GenerateTestReport(p, v)

ReportSpec == StoreInit /\ [][ReportNext]_vars

\* C15: generate_test_report returns a report string for every stored version,
\* whether the version has no test results, scored ones or unscored ones, and
\* makes no oracle call.
ReportReturnedForStoredVersion ==
    (ret.op = "generate_test_report" /\ ret.version_id \in DOMAIN versions) =>
        /\ ~ret.raised
        /\ oracle_calls = NoCalls

----------------------------------------------------------------------------
(* Every writer of the store, the analyzer and the tester, on one prompt *)

AppendOnlyCall ==
    [version_id |-> 1, test_case_id |-> 1, system_prompt |-> "c1", save_result |-> TRUE]

AppendOnlyNext ==
    \/ CreatePrompt("c1")
    \/ CreateVersion(1, "c2")
    \/ UpdatePrompt(1, [name |-> "renamed"])
    \/ DeletePrompt(1)
    \/ CreateTestCase(1)
    \/ DeleteTestCase(1)
    \/ SaveAnalysis(1, "clarity", Some(80))
    \/ /\ Cardinality(DOMAIN test_results) < MaxCascadeResults
       /\ SaveTestResult(1, 1, "out", Some(80))
    \/ /\ NextId(analysis_results) <= MaxAnalysisRows
       /\ AnalyzeClarity([prompt |-> "c1", version_id |-> Some(2)], 0, Dimensions)
    \/ /\ Cardinality(DOMAIN test_results) < MaxCascadeResults
       /\ RunTest(AppendOnlyCall, 0, <<"SCORE:", " ", "1", "0", "0">>)

AppendOnlySpec == StoreInit /\ [][AppendOnlyNext]_vars

(* table2 holds every row of table1 unchanged, but for the rows it dropped *)
RowsKept(table1, table2) ==
    \A id \in DOMAIN table1 \cap DOMAIN table2 : table2[id] = table1[id]

----------------------------------------------------------------------------
(* Tester: run_all_tests.  call holds the arguments prompt_id, version_id and
   system_prompt. *)

(* lines 174-185: run_test with save_result=True on the first n listed test cases *)
RECURSIVE RunAllLoop(_, _, _, _)
RunAllLoop(call, fail_at, evaluation, n) ==
    IF n = 0 THEN RunStart
    ELSE RunTestStep(RunAllLoop(call, fail_at, evaluation, n - 1),
                     [version_id |-> call.version_id,
                      test_case_id |-> GetTestCases(call.prompt_id)[n],
                      system_prompt |-> call.system_prompt,
                      save_result |-> TRUE],
                     fail_at, evaluation)

RunAllTests(call, fail_at, evaluation) ==
    LET n == Len(GetTestCases(call.prompt_id))
        st == RunAllLoop(call, fail_at, evaluation, n)
    IN  /\ NextId(test_results) + n - 1 <= MaxResultRows
        /\ test_results' = st.rows
        /\ oracle_calls' = st.calls
        /\ ret' = [op |-> "run_all_tests", raised |-> st.raised,
                   value |-> IF st.raised THEN st.error ELSE st.results]
        /\ UNCHANGED <<prompts, versions, test_cases, analysis_results, sessions,
                       inputVars>>

RunAllRequests == [prompt_id : {1, 2}, version_id : {1}, system_prompt : {"c1"}]

RunAllInit ==
    /\ EmptyStore
    /\ analysis_text = << >>
    /\ analyses = << >>
    /\ response = << >>
    /\ request \in RunAllRequests

RunAllNext ==
    \/ \E p \in {1, 2} : CreateTestCase(p)
    \/ \E t \in TestCaseIds : DeleteTestCase(t)
    \/ \E fail_at \in 0..(2 * MaxTestCases) :
           RunAllTests(request, fail_at, <<"SCORE:", " ", "1", "0", "0">>)

RunAllSpec == RunAllInit /\ [][RunAllNext]_vars

\* C18: a run_all_tests that returns has run run_test, saving, once for every
\* test case of the prompt and for no other: one result and one new test result
\* row per test case and two oracle calls each, in the order of the test cases'
\* ids; for a prompt without test cases it returns the empty list, makes no
\* oracle call and writes nothing.
RunAllTestsCoversPrompt ==
    [][(ret'.op = "run_all_tests" /\ ~ret'.raised) =>
           LET owned == {t \in DOMAIN test_cases :
                            test_cases[t].prompt_id = request.prompt_id}
               n == Cardinality(owned)
               first == IF DOMAIN test_results = {} THEN 1
                        ELSE Max(DOMAIN test_results) + 1
           IN  /\ Len(ret'.value) = n
               /\ {ret'.value[i].test_case_id : i \in 1..n} = owned
               /\ \A i, j \in 1..n :
                      i < j => ret'.value[i].test_case_id < ret'.value[j].test_case_id
               /\ Len(oracle_calls') = 2 * n
               /\ \A i \in 1..n :
                      /\ oracle_calls'[2 * i - 1].fn = "test_prompt"
                      /\ oracle_calls'[2 * i - 1].prompt =
                             test_cases[ret'.value[i].test_case_id].input_text
               /\ DOMAIN test_results' = DOMAIN test_results \cup (first..(first + n - 1))
               /\ \A r \in DOMAIN test_results : test_results'[r] = test_results[r]
               /\ \A i \in 1..n :
                      /\ test_results'[first + i - 1].test_case_id =
                             ret'.value[i].test_case_id
                      /\ test_results'[first + i - 1].version_id = request.version_id
               /\ n = 0 => (/\ ret'.value = << >>
                            /\ oracle_calls' = NoCalls
                            /\ test_results' = test_results)]_vars

(* prompt 1 owns test case 2 of the two: one result, two calls, one more row *)
RunAllTestsCoversPromptWitness ==
    /\ ret.op = "run_all_tests"
    /\ ~ret.raised
    /\ request.prompt_id = 1
    /\ DOMAIN test_cases = {1, 2}
    /\ test_cases[1].prompt_id = 2
    /\ test_cases[2].prompt_id = 1
    /\ Len(ret.value) = 1
    /\ Len(oracle_calls) = 2
    /\ Cardinality(DOMAIN test_results) = 3

----------------------------------------------------------------------------
(* Operations given ids that may or may not name a row *)

MissingRequests ==
    [prompt_id : PromptIds, test_case_id : TestCaseIds, version_id : {1, 9},
     system_prompt : {"c1"}, save_result : BOOLEAN]

MissingInit ==
    /\ EmptyStore
    /\ analysis_text = << >>
    /\ analyses = << >>
    /\ response = << >>
    /\ request \in MissingRequests

MissingNext ==
    \/ CreatePrompt("c1")
    \/ CreateTestCase(1)
    \/ UpdatePrompt(request.prompt_id, [name |-> "renamed"])
    \/ DeletePrompt(request.prompt_id)
    \/ DeleteTestCase(request.test_case_id)
    \/ SaveAnalysis(request.version_id, "clarity", Some(80))
    \/ SaveTestResult(request.test_case_id, request.version_id, "out", Some(80))
    \/ RunTest(request, 0, <<"SCORE:", " ", "1", "0", "0">>)

MissingSpec == MissingInit /\ [][MissingNext]_vars

\* C19: outside compare_versions an operation given the id of a prompt, version
\* or test case that does not exist reports it: update_prompt and delete_prompt
\* on a missing prompt id, delete_test_case on a missing test case id, and
\* run_test, save_test_result and save_analysis on a missing version id raise.
MissingIdsReported ==
    [][/\ (/\ ret'.op \in {"update_prompt", "delete_prompt"}
           /\ request.prompt_id \notin DOMAIN prompts) => ret'.raised
       /\ (/\ ret'.op = "delete_test_case"
           /\ request.test_case_id \notin DOMAIN test_cases) => ret'.raised
       /\ (/\ ret'.op \in {"run_test", "save_test_result", "save_analysis"}
           /\ request.version_id \notin DOMAIN versions) => ret'.raised]_vars

----------------------------------------------------------------------------
\* C20: a run_test that returns has made exactly two oracle calls, first the
\* test_prompt call (system prompt as supplied, user turn the test case's
\* input_text), then the judge call that embeds the output; with save_result
\* it has added exactly one test result row holding that output, the evaluation
\* and the parsed score, and without save_result none; a row is written only in
\* a step in which both calls returned.
RunTestCallsThenWrites ==
    [][ret'.op = "run_test" =>
           LET new == IF DOMAIN test_results = {} THEN 1
                      ELSE Max(DOMAIN test_results) + 1
           IN  /\ ~ret'.raised =>
                      /\ Len(oracle_calls') = 2
                      /\ oracle_calls'[1] =
                             [fn |-> "test_prompt",
                              system_prompt |-> request.system_prompt,
                              prompt |-> test_cases[request.test_case_id].input_text,
                              ok |-> TRUE]
                      /\ oracle_calls'[2].fn = "create_message"
                      /\ oracle_calls'[2].prompt = <<"evaluate", ret'.value.output>>
                      /\ oracle_calls'[2].ok
                      /\ ret'.value.evaluation = <<"SCORE:", " ", "1", "0", "0">>
                             => ret'.value.score = Some(100)
                      /\ ret'.value.evaluation = <<"x">> => ret'.value.score = None
                      /\ IF request.save_result
                         THEN /\ DOMAIN test_results' = DOMAIN test_results \cup {new}
                              /\ \A r \in DOMAIN test_results :
                                     test_results'[r] = test_results[r]
                              /\ test_results'[new] =
                                     [test_case_id |-> request.test_case_id,
                                      version_id |-> request.version_id,
                                      output |-> ret'.value.output,
                                      score |-> ret'.value.score,
                                      evaluation |-> Some(ret'.value.evaluation)]
                         ELSE test_results' = test_results
               /\ test_results' # test_results =>
                      /\ Len(oracle_calls') = 2
                      /\ oracle_calls'[1].ok
                      /\ oracle_calls'[2].ok]_vars

(* a saved run next to an earlier one: two rows, the second with its score *)
RunTestCallsThenWritesWitness ==
    /\ ret.op = "run_test"
    /\ ~ret.raised
    /\ request.save_result
    /\ Len(oracle_calls) = 2
    /\ DOMAIN test_results = {1, 2}
    /\ test_results[2].score = Some(100)
    /\ test_results[1].score = None

----------------------------------------------------------------------------
(* Analyzer: one dimension at a time, any of the five.  The request holds the
   arguments prompt and version_id, and scored, the set of dimensions whose
   judge response carries a score line. *)

MaxDimensionRows == 2

AllDimensions == {DimensionOrder[i] : i \in 1..Len(DimensionOrder)}

(* analyze_clarity, analyze_completeness, analyze_efficiency, analyze_safety,
   analyze_comprehensive *)
AnalyzeDimension(dimension, call, fail_at) ==
    LET st == AnalyzeStep(AnalyzeStart, dimension, call, fail_at, call.scored)
    IN  /\ Truthy(call.version_id) => NextId(analysis_results) <= MaxDimensionRows
        /\ analysis_results' = st.rows
        /\ oracle_calls' = st.calls
        /\ ret' = [op |-> "analyze_dimension", dimension |-> dimension,
                   raised |-> st.raised,
                   value |-> IF st.raised THEN st.error ELSE st.results[1]]
        /\ UNCHANGED <<prompts, versions, test_cases, test_results, sessions, inputVars>>

DimensionRequests ==
    [prompt : Contents, version_id : {None, Some(0), Some(1), Some(2)},
     scored : ScoredSets]

DimensionInit ==
    /\ EmptyStore
    /\ analysis_text = << >>
    /\ analyses = << >>
    /\ response = << >>
    /\ request \in DimensionRequests

DimensionNext ==
    \E dimension \in AllDimensions, fail_at \in 0..1 :
        AnalyzeDimension(dimension, request, fail_at)

DimensionSpec == DimensionInit /\ [][DimensionNext]_vars

\* C21: a single-dimension analysis that returns gives back the result
\* {type, score, content} of its dimension, with the judge's full response as
\* content and the parsed (possibly absent) score, whether or not a version id
\* was given; with no version id it adds no row, with the id of a version
\* (ids start at 1) it adds exactly one analysis row holding that version id,
\* the dimension, the same content and the same score; rows already stored and
\* all other tables stay as they were.
AnalyzeDimensionPersistsOnce ==
    [][(ret'.op = "analyze_dimension" /\ ~ret'.raised) =>
           LET d == ret'.dimension
               text == IF d \in request.scored
                       THEN LabelOf(d) \o <<" ", "1", "0">> ELSE <<"x">>
               score == IF d \in request.scored THEN Some(10) ELSE None
               new == DOMAIN analysis_results' \ DOMAIN analysis_results
           IN  /\ ret'.value = [type |-> d, score |-> score, content |-> text]
               /\ \A a \in DOMAIN analysis_results :
                      /\ a \in DOMAIN analysis_results'
                      /\ analysis_results'[a] = analysis_results[a]
               /\ request.version_id = None => new = {}
               /\ (request.version_id # None /\ request.version_id[1] >= 1) =>
                      /\ Cardinality(new) = 1
                      /\ \A a \in new :
                             analysis_results'[a] =
                                 [version_id |-> request.version_id[1],
                                  analysis_type |-> d, score |-> score,
                                  content |-> text]
               /\ UNCHANGED <<prompts, versions, test_cases, test_results>>]_vars

AnalyzeDimensionPersistsOnceWitness ==
    /\ ret.op = "analyze_dimension"
    /\ ~ret.raised
    /\ ret.dimension = "general"
    /\ request.version_id = Some(2)
    /\ request.scored = {"general"}
    /\ ret.value = [type |-> "general", score |-> Some(10),
                    content |-> <<"OVERALL ", "SCORE:", " ", "1", "0">>]
    /\ \E a \in DOMAIN analysis_results :
           analysis_results[a] = [version_id |-> 2, analysis_type |-> "general",
                                  score |-> Some(10),
                                  content |-> <<"OVERALL ", "SCORE:", " ", "1", "0">>]
    /\ \E b \in DOMAIN analysis_results : analysis_results[b].analysis_type = "clarity"

----------------------------------------------------------------------------
(* Oracle client: _retry_with_backoff.  One call of the wrapped function is an
   attempt; request is the script of the outcomes the attempts would have,
   oracle_calls the attempts made so far, and ret the position of the loop. *)

MAX_RETRIES == 3
RETRY_DELAY == 2

(* what an attempt does: it returns, or raises RateLimitError (status 429), an
   APIError with a status code, or an APIError without one (a connection
   error) *)
Succeeds == [error |-> "none", status_code |-> 200]
AttemptOutcomes ==
    {Succeeds,
     [error |-> "RateLimitError", status_code |-> 429],
     [error |-> "APIError", status_code |-> 500],
     [error |-> "APIError", status_code |-> 400],
     [error |-> "APIConnectionError", status_code |-> 0]}

(* e.status_code >= 500 *)
IsClientOrServerError(status_code) == status_code >= 400
IsServerError(status_code) == status_code >= 500

(* lines 43-60: one turn of the loop, the attempt numbered from 0 *)
RetryAttempt ==
    LET attempt == Len(oracle_calls)
        outcome == request[attempt + 1]
        delays == IF ret.op = "none" THEN << >> ELSE ret.delays
        last == ~(attempt < MAX_RETRIES - 1)
        sleep == [op |-> "retry_with_backoff", status |-> "running", value |-> None,
                  delays |-> Append(delays, RETRY_DELAY * (2 ^ attempt))]
        raise(e) == [op |-> "retry_with_backoff", status |-> "raised", value |-> e,
                     delays |-> delays]
    IN  /\ IF ret.op = "none" THEN TRUE ELSE ret.status = "running"
        /\ attempt < MAX_RETRIES
        /\ oracle_calls' = Append(oracle_calls,
                                  [fn |-> "func", system_prompt |-> "none",
                                   prompt |-> attempt, ok |-> outcome = Succeeds])
        /\ ret' = CASE outcome.error = "none" ->
                         [op |-> "retry_with_backoff", status |-> "returned",
                          value |-> "result", delays |-> delays]
                    [] outcome.error = "RateLimitError" ->
                         IF ~last THEN sleep ELSE raise("RateLimitError")
                    [] outcome.error = "APIError" ->
                         IF ~last /\ IsServerError(outcome.status_code)
                         THEN sleep ELSE raise("APIError")
                    [] outcome.error = "APIConnectionError" ->
                         (* an APIError that has no status_code attribute: reading
                            it in the condition of line 56 raises *)
                         IF ~last THEN raise("AttributeError")
                         ELSE raise("APIConnectionError")
        /\ UNCHANGED <<storeVars, sessions, inputVars>>

RetryScripts == [1..MAX_RETRIES -> AttemptOutcomes]

RetryInit ==
    /\ EmptyStore
    /\ analysis_text = << >>
    /\ analyses = << >>
    /\ response = << >>
    /\ request \in RetryScripts

RetryNext == RetryAttempt

(* the loop runs on: each sleep is finite *)
RetrySpec == RetryInit /\ [][RetryNext]_vars /\ WF_vars(RetryNext)

(* an error the loop tries again after: a rate limit or a server error *)
IsRetried(outcome) ==
    \/ outcome.error = "RateLimitError"
    \/ outcome.error = "APIError" /\ outcome.status_code >= 500

\* C25: the retry loop ends within MAX_RETRIES attempts: every attempt before
\* the last one made failed with a rate-limit or server (5xx) error; a success
\* is returned at the attempt it happens; a rate-limit or server error is
\* retried while attempts remain and raised at attempt MAX_RETRIES; an error
\* with a status below 500 is raised at the attempt it happens, so after
\* exactly one attempt when it is the first; and the loop does end.
RetryTerminatesInBudget ==
    /\ [](/\ Len(oracle_calls) <= MAX_RETRIES
          /\ ret.op = "retry_with_backoff" =>
                 LET n == Len(oracle_calls)
                     outcome == request[n]
                 IN  /\ n >= 1
                     /\ \A i \in 1..(n - 1) : IsRetried(request[i])
                     /\ outcome.error = "none" =>
                            ret.status = "returned" /\ ret.value = "result"
                     /\ IsRetried(outcome) =>
                            IF n < MAX_RETRIES THEN ret.status = "running"
                            ELSE ret.status = "raised" /\ ret.value = outcome.error
                     /\ (outcome.error = "APIError" /\ outcome.status_code < 500) =>
                            ret.status = "raised" /\ ret.value = "APIError"
                     /\ Len(ret.delays) = IF ret.status = "running" THEN n ELSE n - 1)
    /\ <>(ret.op = "retry_with_backoff" /\ ret.status # "running")

RetryTerminatesInBudgetWitness ==
    /\ ret.op = "retry_with_backoff"
    /\ ret.status = "raised"
    /\ ret.value = "RateLimitError"
    /\ Len(oracle_calls) = MAX_RETRIES
    /\ request[1].status_code = 500
    /\ ret.delays = <<2, 4>>

----------------------------------------------------------------------------
(* delete_test_case among prompts, test cases, analyses and test results *)

DeleteCaseScores == {Some(80), Some(60)}

DeleteCaseNext ==
    \/ CreatePrompt("c1")
    \/ CreateTestCase(1)
    \/ SaveAnalysis(1, "clarity", Some(80))
    \/ \E t \in DOMAIN test_cases, v \in SummaryVersionIds, sc \in DeleteCaseScores :
           /\ Cardinality(DOMAIN test_results) < MaxCascadeResults
           /\ SaveTestResult(t, v, "out", sc)
    \/ \E t \in TestCaseIds : DeleteTestCase(t)
    \/ \E v \in SummaryVersionIds : GetTestSummary(v)

DeleteCaseSpec == StoreInit /\ [][DeleteCaseNext]_vars

\* C26: a delete_test_case step that removes test case t removes t and every
\* test result whose test case is t, and leaves every prompt, version, analysis,
\* other test case and test result of another test case as it was; a test
\* summary taken afterwards counts the results of stored test cases only, so
\* none of the removed results.
DeleteTestCaseCascades ==
    /\ [][\A t \in DOMAIN test_cases :
             (ret'.op = "delete_test_case" /\ t \notin DOMAIN test_cases') =>
                 LET rs == {r \in DOMAIN test_results :
                               test_results[r].test_case_id = t}
                 IN  /\ test_cases' = [u \in DOMAIN test_cases \ {t} |-> test_cases[u]]
                     /\ test_results' =
                            [r \in DOMAIN test_results \ rs |-> test_results[r]]
                     /\ \A r \in DOMAIN test_results' :
                            test_results'[r].test_case_id # t
                     /\ prompts' = prompts
                     /\ versions' = versions
                     /\ analysis_results' = analysis_results]_vars
    /\ [](ret.op = "get_test_summary" =>
             LET kept == {r \in DOMAIN test_results :
                             /\ test_results[r].version_id = ret.version_id
                             /\ test_results[r].test_case_id \in DOMAIN test_cases}
                 passing == {r \in kept : test_results[r].score[1] >= 70}
                 summary == ret.value
             IN  /\ summary.total_tests = Cardinality(kept)
                 /\ summary.passed = Cardinality(passing)
                 /\ summary.failed = Cardinality(kept \ passing)
                 /\ kept = {} <=> summary.average_score = None)

(* test case 1 removed with its result; the result of test case 2 on the same
   version, the analysis, and the prompts and versions are still there *)
DeleteTestCaseCascadesWitness ==
    /\ ret.op = "delete_test_case"
    /\ DOMAIN test_cases = {2}
    /\ DOMAIN prompts = {1, 2}
    /\ DOMAIN versions = {1, 2}
    /\ DOMAIN analysis_results = {1}
    /\ DOMAIN test_results = {2}
    /\ test_results[2].test_case_id = 2
    /\ test_results[2].version_id = 1

\* C27: referential integrity holds in every reachable state of the store:
\* every analysis row names a stored version, every test result names a stored
\* version and a stored test case, and every version and test case names a
\* stored prompt, whatever ids the operations are given.
ReferentialIntegrity ==
    /\ \A a \in DOMAIN analysis_results :
           analysis_results[a].version_id \in DOMAIN versions
    /\ \A r \in DOMAIN test_results :
           /\ test_results[r].version_id \in DOMAIN versions
           /\ test_results[r].test_case_id \in DOMAIN test_cases
    /\ \A v \in DOMAIN versions : versions[v].prompt_id \in DOMAIN prompts
    /\ \A t \in DOMAIN test_cases : test_cases[t].prompt_id \in DOMAIN prompts

----------------------------------------------------------------------------
(* Scores of 0 in the two summaries and in the report *)

ZeroScores == {None, Some(0), Some(80)}
ZeroAnalyses == [type : {"clarity", "general"}, score : ZeroScores]
ZeroAnalysisLists == UNION {[1..n -> ZeroAnalyses] : n \in 0..2}

(* line 323: result['score'] if result['score'] else 'N/A'; None stands for
   the text N/A *)
ScoreShown(score) == IF score # None /\ score[1] # 0 THEN score ELSE None

ZeroInit ==
    /\ EmptyStore
    /\ analysis_text = << >>
    /\ analyses \in ZeroAnalysisLists
    /\ response = << >>
    /\ request = None

ZeroNext ==
    \/ GetQualitySummary
    \/ \E sc \in ZeroScores :
           /\ Cardinality(DOMAIN test_results) < MaxCascadeResults
           /\ SaveTestResult(1, 1, "out", sc)
    \/ GetTestSummary(1)
    \/ GenerateTestReport(1, 1)

ZeroSpec == ZeroInit /\ [][ZeroNext]_vars

(* the quality summary takes a score of 0 as a score *)
ZeroInQualitySummary ==
    ret.op = "get_quality_summary" =>
        /\ \A i \in 1..Len(analyses) :
               analyses[i].score = Some(0) =>
                   analyses[i].type \in DOMAIN ret.value.dimension_scores
        /\ (\E i \in 1..Len(analyses) :
               analyses[i].score = Some(0) /\ analyses[i].type # "general")
               => ret.value.average_score # None

(* the test summary takes a score of 0 as a present, failed score *)
ZeroInTestSummary ==
    ret.op = "get_test_summary" =>
        LET zeros == {r \in DOMAIN test_results :
                         /\ test_results[r].version_id = ret.version_id
                         /\ test_results[r].score = Some(0)}
        IN  /\ ret.value.failed >= Cardinality(zeros)
            /\ zeros # {} => ret.value.average_score # None

\* C28: a present score of 0 is never taken for an absent score: the quality
\* summary has it in dimension_scores and in the average, the test summary
\* counts it as a present failed score and in the average, and the test report
\* of a version with a result of score 0 is returned and shows that score as
\* the number 0, not as N/A.
ZeroScoreNotAbsent ==
    /\ ZeroInQualitySummary
    /\ ZeroInTestSummary
    /\ ret.op = "generate_test_report" =>
           LET zeros == {r \in DOMAIN test_results :
                            /\ test_results[r].version_id = ret.version_id
                            /\ test_results[r].score = Some(0)}
           IN  zeros # {} =>
                   /\ ~ret.raised
                   /\ \A r \in zeros : ScoreShown(test_results[r].score) = Some(0)

----------------------------------------------------------------------------
(* The score line of the analysis templates and the label the analyzer parses.
   The judge follows the template of the dimension it is asked about: its
   response holds the template's score label, a blank and a number of 0..100,
   then the free-text sections. *)

(* str.upper() of a dimension's name, with the blank that follows it in a label *)
UpperName(dimension) ==
    CASE dimension = "clarity" -> "CLARITY "
      [] dimension = "completeness" -> "COMPLETENESS "
      [] dimension = "efficiency" -> "EFFICIENCY "
      [] dimension = "safety" -> "SAFETY "
      [] dimension = "general" -> "GENERAL "

(* a template whose score label is made from the name of the dimension *)
TemplateLabelByName(analysis_type) ==
    IF analysis_type \in AllDimensions
    THEN <<UpperName(analysis_type), "SCORE:">>
    ELSE <<UpperName("general"), "SCORE:">>

(* analyze_prompt: the score label in the "Respond in this format" part of the
   template chosen by meta_prompts.get(analysis_type, meta_prompts["general"]) *)
TemplateLabelOf(analysis_type) ==
    CASE analysis_type = "clarity" -> <<"CLARITY ", "SCORE:">>
      [] analysis_type = "completeness" -> <<"COMPLETENESS ", "SCORE:">>
      [] analysis_type = "efficiency" -> <<"EFFICIENCY ", "SCORE:">>
      [] analysis_type = "safety" -> <<"SAFETY ", "SCORE:">>
      [] OTHER -> <<"OVERALL ", "SCORE:">>

(* the numbers a judge may put in the place of [0-100], as digit strings *)
TemplateScores == {<<"0">>, <<"1">>, <<"1", "0">>, <<"1", "1">>, <<"1", "0", "0">>}
Preambles == {<< >>, <<"x", "\n">>}

TemplateReply(analysis_type, preamble, digits) ==
    preamble \o TemplateLabelOf(analysis_type) \o <<" ">> \o digits \o <<"\n", "\n", "x">>

TemplateRequests ==
    [dimension : AllDimensions, prompt : Contents, digits : TemplateScores,
     preamble : Preambles]

TemplateInit ==
    /\ EmptyStore
    /\ analyses = << >>
    /\ response = << >>
    /\ request \in TemplateRequests
    /\ analysis_text = TemplateReply(request.dimension, request.preamble, request.digits)

(* analyze_<dimension> without a version id, the judge's response being
   analysis_text *)
AnalyzeTemplateReply ==
    LET dimension == request.dimension
        score == ExtractScore(analysis_text, LabelOf(dimension))
    IN  /\ ret' = [op |-> "analyze_dimension", dimension |-> dimension,
                   raised |-> FALSE,
                   value |-> [type |-> dimension, score |-> score,
                              content |-> analysis_text]]
        /\ oracle_calls' = <<[fn |-> "analyze_prompt", system_prompt |-> "none",
                              prompt |-> <<dimension, request.prompt>>, ok |-> TRUE]>>
        /\ UNCHANGED <<storeVars, sessions, inputVars>>

TemplateNext == AnalyzeTemplateReply

TemplateSpec == TemplateInit /\ [][TemplateNext]_vars

\* C29 as stated: for each of the five dimensions the score label of the
\* dimension's template is "<DIMENSION> SCORE:" with the dimension's own name,
\* it is the label the analyzer parses for that dimension, and a judge response
\* that follows the template's format line yields a present score.
TemplateLabelIsDimensionName ==
    ret.op = "analyze_dimension" =>
        /\ TemplateLabelOf(ret.dimension) = <<UpperName(ret.dimension), "SCORE:">>
        /\ TemplateLabelOf(ret.dimension) = LabelOf(ret.dimension)
        /\ ret.value.score # None

\* C29, amended: for each of the five dimensions the score label of the
\* dimension's template is the label the analyzer parses for that dimension:
\* the dimension's name in capitals followed by "SCORE:" for clarity,
\* completeness, efficiency and safety, and "OVERALL SCORE:" for general; so a
\* judge response that follows the template's format line yields a present
\* score, the number on that line.
TemplateLabelIsParsedLabel ==
    ret.op = "analyze_dimension" =>
        /\ TemplateLabelOf(ret.dimension) = LabelOf(ret.dimension)
        /\ TemplateLabelOf(ret.dimension) =
               IF ret.dimension = "general" THEN <<"OVERALL ", "SCORE:">>
               ELSE <<UpperName(ret.dimension), "SCORE:">>
        /\ ret.value.score = Some(ParseInt(request.digits))
        /\ ret.value.score[1] \in 0..100

TemplateLabelIsParsedLabelWitness ==
    /\ ret.op = "analyze_dimension"
    /\ ret.dimension = "general"
    /\ request.digits = <<"1", "0", "0">>
    /\ request.preamble # << >>
    /\ analysis_text = <<"x", "\n", "OVERALL ", "SCORE:", " ", "1", "0", "0", "\n", "\n", "x">>
    /\ ret.value.score = Some(100)

----------------------------------------------------------------------------
(* Oracle failures in the middle of analyze_all_dimensions and run_all_tests *)

SequenceRequests ==
    [prompt : {"c1"}, prompt_id : {1}, version_id : {1, 2}, system_prompt : {"c1"}]

SequenceInit ==
    /\ EmptyStore
    /\ analysis_text = << >>
    /\ analyses = << >>
    /\ response = << >>
    /\ request \in SequenceRequests

SequenceNext ==
    \/ \E p \in {1, 2} : CreateTestCase(p)
    \/ \E fail_at \in 0..Len(AnalyzeOrder) :
           AnalyzeAllDimensions([prompt |-> request.prompt,
                                 version_id |-> Some(request.version_id)],
                                fail_at, Dimensions)
    \/ \E fail_at \in 0..(2 * MaxTestCases) :
           RunAllTests(request, fail_at, <<"SCORE:", " ", "1", "0", "0">>)

SequenceSpec == SequenceInit /\ [][SequenceNext]_vars

\* C30: when an oracle call fails in the i-th pass of analyze_all_dimensions
\* given a version id, or in the i-th test case of run_all_tests, the operation
\* raises the oracle's error; the rows written by passes 1..i-1 are in the
\* store, in order, after the rows that were there before, which are unchanged;
\* there is no row for pass i or a later pass; and the failed call is the last
\* call: every pass before it was made once and nothing is run again.
SequenceFailureKeepsPrefix ==
    [][/\ (ret'.op = "analyze_all_dimensions" /\ FailedCalls(oracle_calls') # {}) =>
              LET order == <<"clarity", "completeness", "efficiency", "safety",
                             "general">>
                  i == Len(oracle_calls')
                  first == NextId(analysis_results)
              IN  /\ FailedCalls(oracle_calls') = {i}
                  /\ ret'.raised /\ ret'.value = "APIError"
                  /\ i <= 5
                  /\ \A j \in 1..i :
                         oracle_calls'[j].prompt = <<order[j], request.prompt>>
                  /\ DOMAIN analysis_results' =
                         DOMAIN analysis_results \cup (first..(first + i - 2))
                  /\ \A a \in DOMAIN analysis_results :
                         analysis_results'[a] = analysis_results[a]
                  /\ \A j \in 1..(i - 1) :
                         /\ analysis_results'[first + j - 1].analysis_type = order[j]
                         /\ analysis_results'[first + j - 1].version_id =
                                request.version_id
                  /\ test_results' = test_results
       /\ (ret'.op = "run_all_tests" /\ FailedCalls(oracle_calls') # {}) =>
              LET cases == InIdOrder({t \in DOMAIN test_cases :
                                         test_cases[t].prompt_id = request.prompt_id})
                  c == Len(oracle_calls')
                  i == (c + 1) \div 2
                  first == NextId(test_results)
              IN  /\ FailedCalls(oracle_calls') = {c}
                  /\ ret'.raised /\ ret'.value = "APIError"
                  /\ i <= Len(cases)
                  /\ \A j \in 1..i :
                         /\ oracle_calls'[2 * j - 1].fn = "test_prompt"
                         /\ oracle_calls'[2 * j - 1].prompt = test_cases[cases[j]].input_text
                  /\ DOMAIN test_results' =
                         DOMAIN test_results \cup (first..(first + i - 2))
                  /\ \A r \in DOMAIN test_results : test_results'[r] = test_results[r]
                  /\ \A j \in 1..(i - 1) :
                         /\ test_results'[first + j - 1].test_case_id = cases[j]
                         /\ test_results'[first + j - 1].version_id = request.version_id
                  /\ analysis_results' = analysis_results]_vars

(* run_all_tests failing at the judge call of the second of two test cases,
   after an analyze_all_dimensions that failed in its third pass *)
SequenceFailureKeepsPrefixWitness ==
    /\ ret.op = "run_all_tests"
    /\ ret.raised
    /\ Len(oracle_calls) = 4
    /\ DOMAIN test_cases = {1, 2}
    /\ \A t \in DOMAIN test_cases : test_cases[t].prompt_id = 1
    /\ DOMAIN test_results = {1}
    /\ test_results[1].test_case_id = 1
    /\ DOMAIN analysis_results = {1, 2}
    /\ analysis_results[2].analysis_type = "completeness"

====
